---- MODULE Spec2Model ----
(***************************************************************************)
(* Session engine of the rrc-tui chat client (src/rrc_tui/client.py):      *)
(* room membership and negotiated limits, the send path with its           *)
(* packet-fit probe, the HELLO handshake task, and the resource            *)
(* expectation cache with its active-transfer set.                         *)
(*                                                                         *)
(* Text is a sequence of one-character strings; UTF-8 length, str.strip    *)
(* and str.lower are computed character by character.                      *)
(***************************************************************************)
EXTENDS Integers, Sequences, FiniteSets, TLC

(***************************************************************************)
(* Bounds of the model.                                                    *)
(***************************************************************************)
\* longest room name given to join / part / msg or carried by JOINED / PARTED
MaxRoomLen == 2
\* longest message text given to msg
MaxTextLen == 2
\* longest nickname given to set_nickname
MaxNickLen == 2
\* links one engine creates over its life (calls of connect that reach RNS.Link)
MaxLinks == 2
\* largest encoded payload the transport packs into one packet (link MDU),
\* counted in bytes of the variable-length fields room + body + nickname
MDU == 4
\* last instant of the monotonic clock
MaxTime == 1
MaxMsgs == 2
MaxThreads == 2

(***************************************************************************)
(* Program constants.  The defaults of the negotiated limits are imported  *)
(* by client.py from the constants module; they are scaled to the string   *)
(* bounds above so that both sides of every limit are exercised.           *)
(***************************************************************************)
DEFAULT_MAX_NICK_BYTES == 2
DEFAULT_MAX_ROOM_NAME_BYTES == 2
DEFAULT_MAX_MSG_BODY_BYTES == 2
DEFAULT_MAX_ROOMS_PER_SESSION == 2
DEFAULT_RATE_LIMIT_MSGS_PER_MINUTE == 1

\* ClientConfig, scaled
max_pending_resource_expectations == 2
max_active_resources == 1
max_resource_bytes == 2
resource_expectation_ttl_s == 1
hello_max_attempts == 3

\* PendingMessageTracker(timeout_seconds), scaled
timeout_seconds == 0

(***************************************************************************)
(* Text.                                                                   *)
(***************************************************************************)
\* Python None, where a text is optional
None == <<"<None>">>

RECURSIVE Strings(_, _)
\* all texts over the characters `chars` of at most n characters
Strings(chars, n) ==
    IF n = 0 THEN {<<>>}
    ELSE LET shorter == Strings(chars, n - 1)
         IN  shorter \cup {Append(s, c) : s \in shorter, c \in chars}

\* "e'" stands for a two-byte character (U+00E9)
CharBytes(c) == IF c = "e'" THEN 2 ELSE 1

RECURSIVE ByteLen(_)
\* len(s.encode("utf-8"))
ByteLen(s) == IF s = <<>> THEN 0 ELSE CharBytes(Head(s)) + ByteLen(Tail(s))

IsSpace(c) == c = " "

LowerChar(c) == IF c = "G" THEN "g" ELSE IF c = "A" THEN "a" ELSE c

\* str.lower()
Lower(s) == [i \in 1..Len(s) |-> LowerChar(s[i])]

RECURSIVE LStrip(_)
LStrip(s) == IF s # <<>> /\ IsSpace(Head(s)) THEN LStrip(Tail(s)) ELSE s

RECURSIVE RStrip(_)
RStrip(s) ==
    IF s # <<>> /\ IsSpace(s[Len(s)]) THEN RStrip(SubSeq(s, 1, Len(s) - 1)) ELSE s

\* str.strip()
Strip(s) == LStrip(RStrip(s))

\* the normalization without its lower()
RoomKey_StripOnly(room) == Strip(room)

\* r = room.strip().lower(), as join, part, msg and the JOINED / PARTED handlers do
RoomKey(room) == Lower(Strip(room))

\* utils.normalize_room_name, which the UI applies before it calls the engine
normalize_room_name(room) == Strip(Lower(room))

RoomChars == {"G", "g", " "}
TextChars == {"a", " ", "e'"}
NickChars == {"n"}

RoomInputs == Strings(RoomChars, MaxRoomLen)
TextInputs == Strings(TextChars, MaxTextLen)
NickInputs == Strings(NickChars, MaxNickLen)

(***************************************************************************)
(* State.                                                                  *)
(***************************************************************************)
VARIABLES
    \* Client fields
    link,                       \* self.link: 0 is None, else the link's number
    rooms,                      \* self.rooms
    nickname,                   \* self._nickname
    max_nick_bytes,
    max_room_name_bytes,
    max_msg_body_bytes,
    max_rooms_per_session,
    rate_limit_msgs_per_minute,
    welcomed,                   \* self._welcomed (threading.Event)
    \* the transport's links
    linksCreated,               \* links made so far by RNS.Link(...)
    linkStatus,                 \* per link: "none", "pending", "active", "closed"
    waiting,                    \* the link a connect(wait_for_welcome=True) call
                                \* created and waits on for WELCOME, else 0
    connecting,                 \* [pc, wait, link] of a connect call taken one
                                \* statement group at a time: "idle", "cleared"
                                \* (welcomed flag cleared), "created" (its link
                                \* made and not yet assigned to self.link)
    \* the handshake task of each link (_hello_loop)
    helloPc,                    \* per link: "none", "loop", "send", "done"
    attempts,                   \* per link: the task's local `attempts`
    stopDue,                    \* per link (history): while its task has run, the
                                \* welcomed flag was set or the link stopped
                                \* being the current one
    \* what the last step did, as its caller and the transport see it
    last,                       \* [op, room, text, outcome]
    handed,                     \* envelopes given to RNS.Packet(...).send()
    callbacks,                  \* UI callbacks invoked
    \* resource bookkeeping
    now,                        \* time.monotonic()
    expectations,               \* self._resource_expectations, in insertion order
    active,                     \* self._active_resources
    resToExp,                   \* self._resource_to_expectation
    \* the transport's resource handles and the callback running on each
    res,                        \* per handle: [size, status, closes, cancelled,
                                \*              concluded, noticed (history: its
                                \*              payload went to on_notice)]
    task,                       \* per handle: [pc, exp] of the running callback
    \* the UI's callbacks
    raising,                    \* the callbacks that raise when invoked
    \* PendingMessageTracker of the UI, and the UI's own messages
    _pending,                   \* self._pending, in insertion order
    _checker_running,           \* self._checker_running
    _checker_thread,            \* self._checker_thread: 0 is None
    sweeper,                    \* per thread: [pc, queue] of timeout_checker
    joining,                    \* the thread stop_checker is joining, else 0
    reported,                   \* per message id (history): timeout callbacks
    messages                    \* the own messages shown: [style, room, text]

sessionVars == <<link, rooms, nickname, max_nick_bytes, max_room_name_bytes,
                 max_msg_body_bytes, max_rooms_per_session,
                 rate_limit_msgs_per_minute, welcomed>>
linkVars == <<linksCreated, linkStatus, waiting, connecting>>
helloVars == <<helloPc, attempts, stopDue>>
obsVars == <<last, handed, callbacks>>

cacheVars == <<expectations, active, resToExp>>
resVars == <<res, task>>
trackerVars == <<_pending, _checker_running, _checker_thread, sweeper, joining,
                 reported, messages>>
uiVars == <<raising, trackerVars>>

vars == <<sessionVars, linkVars, helloVars, obsVars, now, cacheVars, resVars,
          uiVars>>

Links == 1..MaxLinks
MsgIds == 1..MaxMsgs
Threads == 1..MaxThreads

\* stopDue once the welcomed flag is set or the current link changes: every
\* handshake task then running has its reason to stop
StopSeen == [l \in Links |-> stopDue[l] \/ helloPc[l] \in {"loop", "send"}]

limitVars == <<max_nick_bytes, max_room_name_bytes, max_msg_body_bytes,
               max_rooms_per_session, rate_limit_msgs_per_minute>>

(***************************************************************************)
(* Envelopes and the send path.                                            *)
(***************************************************************************)
\* envelope.make_envelope: version, id, timestamp and source are of fixed
\* size; room and body are present when given, the nickname is stamped later
make_envelope(msg_type, room, body) ==
    [t |-> msg_type, room |-> room, body |-> body, nick |-> None]

FieldLen(v) == IF v = None THEN 0 ELSE ByteLen(v)

\* codec.encode(env), by the size of its payload
encode(env) == FieldLen(env.room) + FieldLen(env.body) + FieldLen(env.nick)

\* Client._packet_would_fit: RNS.Packet(link, payload).pack() raises past the MDU
_packet_would_fit(payload) == payload <= MDU

Result(outcome, envs, cbs) == [outcome |-> outcome, handed |-> envs, callbacks |-> cbs]

\* Client._send
_send(env) ==
    IF link = 0 THEN Result("RuntimeError: Not connected to hub.", <<>>, <<>>)
    ELSE IF ~_packet_would_fit(encode(env))
    THEN Result("MessageTooLargeError", <<>>, <<"on_resource_warning">>)
    ELSE Result("ok", <<env>>, <<>>)

\* envelope[K_NICK] = self.nickname, when the nickname is set and not empty
StampNick(env) ==
    IF nickname # None /\ nickname # <<>> THEN [env EXCEPT !.nick = nickname] ELSE env

\* the call sites without the try around on_close
IsolatedCallbacks_NotClose ==
    {"on_notice", "on_resource_warning", "on_pong", "on_welcome", "on_joined",
     "on_parted", "on_message", "on_error"}

\* the UI callbacks whose every call site is inside try/except Exception or
\* contextlib.suppress(Exception)
IsolatedCallbacks ==
    {"on_close", "on_notice", "on_resource_warning", "on_pong", "on_welcome",
     "on_joined", "on_parted", "on_message", "on_error"}

\* the outcome of a step that invoked cbs: an exception of a callback leaves
\* the step unless its call site catches it
Propagated(cbs, outcome) ==
    IF \E i \in 1..Len(cbs) : cbs[i] \in raising \ IsolatedCallbacks
    THEN "Exception: callback" ELSE outcome

\* what a step leaves for its caller and the transport to see
Observe(op, room, text, r) ==
    /\ last' = [op |-> op, room |-> room, text |-> text,
                outcome |-> Propagated(r.callbacks, r.outcome)]
    /\ handed' = r.handed
    /\ callbacks' = r.callbacks

(***************************************************************************)
(* Commands of the UI.                                                     *)
(***************************************************************************)
\* Client.set_nickname
set_nickname(n) ==
    LET ok == n = None \/ ByteLen(n) <= max_nick_bytes
    IN  /\ nickname' = IF ok THEN n ELSE nickname
        /\ Observe("set_nickname", None, n,
                   Result(IF ok THEN "ok" ELSE "ValueError: Nickname too long",
                          <<>>, <<>>))
        /\ UNCHANGED <<link, rooms, limitVars, welcomed, linkVars, helloVars,
                       now, uiVars, cacheVars, resVars>>

\* the room-name checks of join: empty, then too long
JoinNameError(r) ==
    IF r = <<>> THEN "ValueError: Room name cannot be empty."
    ELSE IF ByteLen(r) > max_room_name_bytes THEN "ValueError: Room name too long"
    ELSE "ok"

\* the room-name check of part and msg: empty only
PartNameError(r) ==
    IF r = <<>> THEN "ValueError: Room name cannot be empty." ELSE "ok"

\* the cap compared with > where the code has >=
JoinCapError_OffByOne ==
    IF Cardinality(rooms) > max_rooms_per_session
    THEN "ValueError: Cannot join more rooms" ELSE "ok"

\* the per-session cap of join
JoinCapError ==
    IF Cardinality(rooms) >= max_rooms_per_session
    THEN "ValueError: Cannot join more rooms" ELSE "ok"

\* Client.join (key is None)
join(room) ==
    LET r == RoomKey(room)
        result ==
            IF JoinNameError(r) # "ok" THEN Result(JoinNameError(r), <<>>, <<>>)
            ELSE IF JoinCapError # "ok" THEN Result(JoinCapError, <<>>, <<>>)
            ELSE _send(make_envelope("JOIN", r, None))
    IN  /\ Observe("join", room, None, result)
        /\ UNCHANGED <<sessionVars, linkVars, helloVars, now, uiVars, cacheVars, resVars>>

\* Client.part
part(room) ==
    LET r == RoomKey(room)
        result ==
            IF PartNameError(r) # "ok" THEN Result(PartNameError(r), <<>>, <<>>)
            ELSE _send(make_envelope("PART", r, None))
    IN  /\ rooms' = IF result.outcome = "ok" THEN rooms \ {r} ELSE rooms
        /\ Observe("part", room, None, result)
        /\ UNCHANGED <<link, nickname, limitVars, welcomed, linkVars, helloVars,
                       now, uiVars, cacheVars, resVars>>

\* the text limit compared with >= where the code has >
MsgTextError_OffByOne(text) ==
    IF Strip(text) = <<>> THEN "ValueError: Message text cannot be empty."
    ELSE IF ByteLen(text) >= max_msg_body_bytes THEN "ValueError: Message too long"
    ELSE "ok"

\* the text checks of msg: blank, then too long
MsgTextError(text) ==
    IF Strip(text) = <<>> THEN "ValueError: Message text cannot be empty."
    ELSE IF ByteLen(text) > max_msg_body_bytes THEN "ValueError: Message too long"
    ELSE "ok"

\* Client.msg
msg(room, text) ==
    LET r == RoomKey(room)
        result ==
            IF PartNameError(r) # "ok" THEN Result(PartNameError(r), <<>>, <<>>)
            ELSE IF MsgTextError(text) # "ok" THEN Result(MsgTextError(text), <<>>, <<>>)
            ELSE _send(StampNick(make_envelope("MSG", r, text)))
    IN  /\ Observe("msg", room, text, result)
        /\ UNCHANGED <<sessionVars, linkVars, helloVars, now, uiVars, cacheVars, resVars>>

\* Client.ping
ping ==
    /\ Observe("ping", None, None, _send(make_envelope("PING", None, None)))
    /\ UNCHANGED <<sessionVars, linkVars, helloVars, now, uiVars, cacheVars, resVars>>

(***************************************************************************)
(* Inbound dispatch (Client._on_packet) of an envelope that decodes and    *)
(* validates.  A packet is delivered by a link the transport holds active. *)
(***************************************************************************)
Delivering == \E l \in Links : linkStatus[l] = "active"

Quiet(op, room, text, envs, cbs) == Observe(op, room, text, Result("ok", envs, cbs))

\* An inbound payload, by what decode and validate_envelope look at: whether
\* it decodes, whether the decoded value is a map, the worst of its keys, and
\* the value under each key the validation reads (type and, for integers,
\* value; bool is a subclass of int in Python).
RRC_VERSION == 1

Absent == [type |-> "absent", val |-> 0]
IntVal(n) == [type |-> "int", val |-> n]
BoolVal(n) == [type |-> "bool", val |-> n]
BytesVal == [type |-> "bytes", val |-> 0]
StrVal == [type |-> "str", val |-> 0]

IsInt(x) == x.type \in {"int", "bool"}

RequiredKeys == <<"v", "t", "id", "ts", "src">>

\* envelope.validate_envelope: "ok", or the error of the first check that fails
validate_envelope(env) ==
    IF env.shape # "map" THEN "TypeError: envelope must be a CBOR map (dict)"
    ELSE IF env.keys = "not int" THEN "TypeError: envelope keys must be integers"
    ELSE IF env.keys = "negative"
    THEN "ValueError: envelope keys must be unsigned integers"
    ELSE IF \E i \in 1..Len(RequiredKeys) : env[RequiredKeys[i]] = Absent
    THEN "ValueError: envelope missing required key"
    ELSE IF ~IsInt(env.v) THEN "TypeError: envelope version must be an integer"
    ELSE IF env.v.val # RRC_VERSION THEN "ValueError: unsupported envelope version"
    ELSE IF ~IsInt(env.t)
    THEN "TypeError: envelope message type must be an integer"
    ELSE IF env.t.val < 0 THEN "ValueError: envelope message type must be unsigned"
    ELSE IF env.id.type # "bytes" THEN "TypeError: envelope message ID must be bytes"
    ELSE IF ~IsInt(env.ts) THEN "TypeError: envelope timestamp must be an integer"
    ELSE IF env.ts.val < 0 THEN "ValueError: envelope timestamp must be unsigned"
    ELSE IF env.src.type # "bytes" THEN "TypeError: envelope source must be bytes"
    ELSE IF env.room # Absent /\ env.room.type # "str"
    THEN "TypeError: envelope room must be a string"
    ELSE "ok"

\* the error the try block of _on_packet catches, "ok" when it catches none
DecodeValidate(env) ==
    IF ~env.decodes THEN "decode failed" ELSE validate_envelope(env)

\* _on_packet when decode or validate_envelope raises: logged, nothing else
_on_packet_rejected(env) ==
    /\ Delivering
    /\ DecodeValidate(env) # "ok"
    /\ Observe("_on_packet", None, None, Result(DecodeValidate(env), <<>>, <<>>))
    /\ UNCHANGED <<sessionVars, linkVars, helloVars, now, uiVars, cacheVars, resVars>>

\* _on_packet of a valid envelope whose type no branch handles
_on_packet_unhandled ==
    /\ Delivering
    /\ Quiet("_on_packet", None, None, <<>>, <<>>)
    /\ UNCHANGED <<sessionVars, linkVars, helloVars, now, uiVars, cacheVars, resVars>>

\* t == T_PING: reply PONG with the same body, any error of _send suppressed
OnPing(body) ==
    LET r == _send(make_envelope("PONG", None, body))
    IN  /\ Delivering
        /\ Quiet("on_ping", None, body, r.handed, r.callbacks)
        /\ UNCHANGED <<sessionVars, linkVars, helloVars, now, uiVars, cacheVars, resVars>>

\* t == T_PONG
OnPong ==
    /\ Delivering
    /\ Quiet("on_pong", None, None, <<>>, <<"on_pong">>)
    /\ UNCHANGED <<sessionVars, linkVars, helloVars, now, uiVars, cacheVars, resVars>>

\* t == T_JOINED; room is the envelope's K_ROOM (None when absent)
OnJoined(room) ==
    LET acts == room # None /\ room # <<>>
        r == RoomKey(room)
    IN  /\ Delivering
        /\ rooms' = IF acts THEN rooms \cup {r} ELSE rooms
        /\ Quiet("on_joined", room, None, <<>>,
                 IF acts THEN <<"on_joined">> ELSE <<>>)
        /\ UNCHANGED <<link, nickname, limitVars, welcomed, linkVars, helloVars,
                       now, uiVars, cacheVars, resVars>>

\* t == T_PARTED
OnParted(room) ==
    LET acts == room # None /\ room # <<>>
        r == RoomKey(room)
    IN  /\ Delivering
        /\ rooms' = IF acts THEN rooms \ {r} ELSE rooms
        /\ Quiet("on_parted", room, None, <<>>,
                 IF acts THEN <<"on_parted">> ELSE <<>>)
        /\ UNCHANGED <<link, nickname, limitVars, welcomed, linkVars, helloVars,
                       now, uiVars, cacheVars, resVars>>

\* t == T_MSG, T_NOTICE, T_ERROR: forwarded to the callback of that name
OnForward(cb) ==
    /\ Delivering
    /\ Quiet(cb, None, None, <<>>, <<cb>>)
    /\ UNCHANGED <<sessionVars, linkVars, helloVars, now, uiVars, cacheVars, resVars>>

\* The limits sub-map of a WELCOME body: the keys present, those among them
\* whose value int() rejects, and the value of the others.
LimitKeys == <<"nick", "room", "msg", "rooms", "rate">>

LimitIndex(k) == CHOOSE i \in 1..Len(LimitKeys) : LimitKeys[i] = k

LimitMaps(keys, badable, values) ==
    {m \in [present : SUBSET keys, bad : SUBSET badable, val : [keys -> values]] :
        m.bad \subseteq m.present}

\* index of the first key whose conversion raises (past the end when none does)
FirstBad(lim) ==
    LET badIdx == {LimitIndex(k) : k \in lim.present \cap lim.bad}
    IN  IF badIdx = {} THEN Len(LimitKeys) + 1
        ELSE CHOOSE i \in badIdx : \A j \in badIdx : i <= j

\* the limit after the handler's assignments, which run in the order of LimitKeys
Negotiated(lim, k, old) ==
    IF k \in lim.present /\ LimitIndex(k) < FirstBad(lim) THEN lim.val[k] ELSE old

\* t == T_WELCOME
OnWelcome(lim) ==
    LET raises == FirstBad(lim) <= Len(LimitKeys)
    IN  /\ Delivering
        /\ max_nick_bytes' = Negotiated(lim, "nick", max_nick_bytes)
        /\ max_room_name_bytes' = Negotiated(lim, "room", max_room_name_bytes)
        /\ max_msg_body_bytes' = Negotiated(lim, "msg", max_msg_body_bytes)
        /\ max_rooms_per_session' = Negotiated(lim, "rooms", max_rooms_per_session)
        /\ rate_limit_msgs_per_minute' =
               Negotiated(lim, "rate", rate_limit_msgs_per_minute)
        /\ welcomed' = IF raises THEN welcomed ELSE TRUE
        /\ Observe("on_welcome", None, None,
                   IF raises THEN Result("ValueError: int()", <<>>, <<>>)
                   ELSE Result("ok", <<>>, <<"on_welcome">>))
        /\ stopDue' = IF raises THEN stopDue ELSE StopSeen
        /\ UNCHANGED <<link, rooms, nickname, linkVars, helloPc, attempts,
                       now, uiVars, cacheVars, resVars>>

(***************************************************************************)
(* Resource handles of the transport.                                      *)
(***************************************************************************)
\* handles the transport offers over the engine's life
MaxResources == max_active_resources + 1

Resources == 1..MaxResources

\* a handle's buffer (resource.data) exists once the transfer is assembled
HasData(r) == res[r].status = "complete"

\* the transport ends a transfer it was moving: assembled (COMPLETE), or
\* FAILED, which is all a cancelled transfer can come to; the concluded
\* callback is invoked afterwards
TransferEnds(r, status) ==
    /\ res[r].status = "transferring"
    /\ task[r].pc = "idle"
    /\ status = "complete" => ~res[r].cancelled
    /\ res' = [res EXCEPT ![r].status = status]
    /\ last' = [op |-> "transfer_ends", room |-> None, text |-> None, outcome |-> "ok"]
    /\ handed' = <<>>
    /\ callbacks' = <<>>
    /\ UNCHANGED <<sessionVars, linkVars, helloVars, now, uiVars, cacheVars, task>>

\* no handle is cancelled or closed
CancelAll_None(S) == res

\* resource.cancel() and, when it has a buffer, resource.data.close(), for
\* every handle of S (closes saturates at 2: "more than once")
CancelAll(S) ==
    [r \in Resources |->
        IF r \in S
        THEN [res[r] EXCEPT !.cancelled = TRUE,
                            !.closes = IF HasData(r) /\ @ < 2 THEN @ + 1 ELSE @]
        ELSE res[r]]

(***************************************************************************)
(* Link lifecycle: connect, the link's callbacks, close.                   *)
(***************************************************************************)
\* the clearing that leaves the transfer bindings in place
ClosedEffects_KeepBindings ==
    /\ link' = 0
    /\ rooms' = {}
    /\ expectations' = <<>>
    /\ active' = {}
    /\ resToExp' = resToExp
    /\ res' = CancelAll(active)

\* connect._closed, the closed callback of every link: it detaches whatever
\* link is current and clears the session's bookkeeping under the lock
ClosedEffects ==
    /\ link' = 0
    /\ rooms' = {}
    /\ expectations' = <<>>
    /\ active' = {}
    /\ resToExp' = <<>>
    /\ res' = CancelAll(active)

\* the transport reports a link closed (timeout, remote teardown)
_closed(l) ==
    /\ linkStatus[l] \in {"pending", "active"}
    /\ linkStatus' = [linkStatus EXCEPT ![l] = "closed"]
    /\ ClosedEffects
    /\ Quiet("_closed", None, None, <<>>, <<"on_close">>)
    /\ stopDue' = StopSeen
    /\ UNCHANGED <<nickname, limitVars, welcomed, linksCreated, waiting, helloPc,
                   attempts, now, uiVars, connecting, task>>

\* a connect that makes its link before the hub's identity is recalled
connect_fails_LinkFirst(error) ==
    /\ linksCreated < MaxLinks
    /\ welcomed' = FALSE
    /\ linksCreated' = linksCreated + 1
    /\ linkStatus' = [linkStatus EXCEPT ![linksCreated + 1] = "pending"]
    /\ link' = linksCreated + 1
    /\ Observe("connect", None, None, Result(error, <<>>, <<>>))
    /\ UNCHANGED <<rooms, nickname, limitVars, waiting, helloVars,
                   now, uiVars, connecting, cacheVars, resVars>>

\* connect fails before a link exists: identity never recalled, or hash mismatch
connect_fails(error) ==
    /\ welcomed' = FALSE
    /\ Observe("connect", None, None, Result(error, <<>>, <<>>))
    /\ UNCHANGED <<link, rooms, nickname, limitVars, linkVars, helloVars,
                   now, uiVars, cacheVars, resVars>>

\* connect reaching RNS.Link: active links to the hub are torn down first
\* (each runs its closed callback), then the new link is created and made
\* current; with wait_for_welcome the call then blocks on the welcomed event
Connect(wait_for_welcome) ==
    LET existing == {l \in Links : linkStatus[l] = "active"}
        new == linksCreated + 1
    IN  /\ linksCreated < MaxLinks
        /\ waiting = 0
        /\ welcomed' = FALSE
        /\ linksCreated' = new
        /\ linkStatus' = [l \in Links |->
               IF l = new THEN "pending"
               ELSE IF l \in existing THEN "closed" ELSE linkStatus[l]]
        /\ waiting' = IF wait_for_welcome THEN new ELSE 0
        /\ link' = new
        /\ IF existing # {}
           THEN /\ rooms' = {}
                /\ expectations' = <<>>
                /\ active' = {}
                /\ resToExp' = <<>>
                /\ res' = CancelAll(active)
           ELSE UNCHANGED <<rooms, cacheVars, res>>
        /\ Observe("connect", None, None,
                   Result(IF wait_for_welcome THEN "waiting" ELSE "ok", <<>>,
                          IF existing # {} THEN <<"on_close">> ELSE <<>>))
        /\ stopDue' = StopSeen
        /\ UNCHANGED <<nickname, limitVars, helloPc, attempts, now, uiVars, connecting, task>>

\* connect(wait_for_welcome=False)
connect == Connect(FALSE)

\* connect(wait_for_welcome=True) up to its wait
connect_and_wait == Connect(TRUE)

\* connect taken one group of statements at a time, as the link callbacks
\* and packet handlers of other threads see it.  First statement: the
\* welcomed event is cleared; the path request and the recall of the hub's
\* identity follow
connect_clear(wait) ==
    /\ connecting.pc = "idle"
    /\ waiting = 0
    /\ linksCreated < MaxLinks
    /\ welcomed' = FALSE
    /\ connecting' = [pc |-> "cleared", wait |-> wait, link |-> 0]
    /\ Observe("connect", None, None, Result("running", <<>>, <<>>))
    /\ stopDue' = StopSeen
    /\ UNCHANGED <<link, rooms, nickname, limitVars, linksCreated, linkStatus,
                   waiting, helloPc, attempts, now, uiVars, cacheVars, resVars>>

\* active links to the hub are torn down (each runs its closed callback),
\* then RNS.Link(...) makes the new link with its callbacks
connect_link ==
    LET existing == {l \in Links : linkStatus[l] = "active"}
        new == linksCreated + 1
    IN  /\ connecting.pc = "cleared"
        /\ linksCreated' = new
        /\ linkStatus' = [l \in Links |->
               IF l = new THEN "pending"
               ELSE IF l \in existing THEN "closed" ELSE linkStatus[l]]
        /\ connecting' = [connecting EXCEPT !.pc = "created", !.link = new]
        /\ IF existing # {}
           THEN ClosedEffects
           ELSE UNCHANGED <<link, rooms, cacheVars, res>>
        /\ Observe("connect", None, None,
                   Result("running", <<>>,
                          IF existing # {} THEN <<"on_close">> ELSE <<>>))
        /\ stopDue' = StopSeen
        /\ UNCHANGED <<nickname, limitVars, welcomed, waiting, helloPc, attempts,
                       now, uiVars, task>>

\* with self._lock: self.link = link; connect then returns, or goes on to
\* wait for the welcomed event
connect_assign ==
    /\ connecting.pc = "created"
    /\ link' = connecting.link
    /\ waiting' = IF connecting.wait THEN connecting.link ELSE 0
    /\ connecting' = [pc |-> "idle", wait |-> FALSE, link |-> 0]
    /\ Observe("connect", None, None,
               Result(IF connecting.wait THEN "waiting" ELSE "ok", <<>>, <<>>))
    /\ stopDue' = StopSeen
    /\ UNCHANGED <<rooms, nickname, limitVars, welcomed, linksCreated, linkStatus,
                   helloPc, attempts, now, uiVars, cacheVars, resVars>>

\* the wait of connect(wait_for_welcome=True) ends: the welcomed event is set
\* and connect returns, or the timeout passes first and it raises TimeoutError
wait_for_welcome ==
    /\ waiting # 0
    /\ waiting' = 0
    /\ Observe("connect", None, None,
               Result(IF welcomed THEN "ok" ELSE "TimeoutError: WELCOME", <<>>, <<>>))
    /\ UNCHANGED <<sessionVars, linksCreated, linkStatus, helloVars, now, uiVars, connecting,
                   cacheVars, resVars>>

\* connect._established: identity assertion, then the handshake task starts
_established(l) ==
    /\ linkStatus[l] = "pending"
    /\ linkStatus' = [linkStatus EXCEPT ![l] = "active"]
    /\ helloPc' = [helloPc EXCEPT ![l] = "loop"]
    /\ attempts' = [attempts EXCEPT ![l] = 0]
    /\ stopDue' = [stopDue EXCEPT ![l] = welcomed \/ link # l]
    /\ Quiet("_established", None, None, <<>>, <<>>)
    /\ UNCHANGED <<sessionVars, linksCreated, waiting, now, uiVars, connecting, cacheVars, resVars>>

\* connect._established when link.identify raises: the link is torn down
_established_identify_fails(l) ==
    /\ linkStatus[l] = "pending"
    /\ linkStatus' = [linkStatus EXCEPT ![l] = "closed"]
    /\ ClosedEffects
    /\ Quiet("_established", None, None, <<>>, <<"on_close">>)
    /\ stopDue' = StopSeen
    /\ UNCHANGED <<nickname, limitVars, welcomed, linksCreated, waiting, helloPc,
                   attempts, now, uiVars, connecting, task>>

\* Client.close
close ==
    LET live == link # 0 /\ linkStatus[link] \in {"pending", "active"}
    IN  /\ link' = 0
        /\ rooms' = {}
        /\ expectations' = <<>>
        /\ active' = {}
        /\ resToExp' = <<>>
        /\ res' = CancelAll(active)
        /\ linkStatus' = IF live THEN [linkStatus EXCEPT ![link] = "closed"]
                         ELSE linkStatus
        /\ Quiet("close", None, None, <<>>, IF live THEN <<"on_close">> ELSE <<>>)
        /\ stopDue' = StopSeen
        /\ UNCHANGED <<nickname, limitVars, welcomed, linksCreated, waiting,
                       helloPc, attempts, now, uiVars, connecting, task>>

(***************************************************************************)
(* The handshake task of a link (connect._hello_loop).                     *)
(***************************************************************************)
\* self.hello_body: client name, version and capabilities
hello_body == <<"h", "h", "h">>

\* connect._send_hello: the payload goes to RNS.Packet(...).send() directly
_send_hello == <<StampNick(make_envelope("HELLO", None, hello_body))>>

\* the loop without its attempt cap
_hello_loop_Uncapped(l) ==
    /\ helloPc[l] = "loop"
    /\ IF welcomed \/ link # l
       THEN /\ helloPc' = [helloPc EXCEPT ![l] = "done"]
            /\ stopDue' = [stopDue EXCEPT ![l] = FALSE]
       ELSE /\ helloPc' = [helloPc EXCEPT ![l] = "send"]
            /\ UNCHANGED stopDue
    /\ Quiet("_hello_loop", None, None, <<>>, <<>>)
    /\ UNCHANGED <<sessionVars, linkVars, attempts, now, uiVars, cacheVars, resVars>>

\* one iteration of the loop up to its send: the loop condition reads the
\* welcomed flag, the lock region compares the current link with the task's
\* own, and the send is due while attempts remain.  The task returns, or
\* goes on to send outside the lock.
_hello_loop(l) ==
    /\ helloPc[l] = "loop"
    /\ IF welcomed \/ link # l
       THEN /\ helloPc' = [helloPc EXCEPT ![l] = "done"]
            /\ stopDue' = [stopDue EXCEPT ![l] = FALSE]
       ELSE /\ attempts[l] < hello_max_attempts
            /\ helloPc' = [helloPc EXCEPT ![l] = "send"]
            /\ UNCHANGED stopDue
    /\ Quiet("_hello_loop", None, None, <<>>, <<>>)
    /\ UNCHANGED <<sessionVars, linkVars, attempts, now, uiVars, cacheVars, resVars>>

\* the rest of the iteration: _send_hello on the task's link, whatever the
\* current link is by now, and the attempt counted whether or not it raised
_hello_loop_send(l) ==
    /\ helloPc[l] = "send"
    /\ helloPc' = [helloPc EXCEPT ![l] = "loop"]
    /\ attempts' = [attempts EXCEPT ![l] = @ + 1]
    /\ Quiet("_send_hello", None, None, _send_hello, <<>>)
    /\ UNCHANGED <<sessionVars, linkVars, stopDue, now, uiVars, cacheVars, resVars>>

\* the task's deadline passes
_hello_deadline(l) ==
    /\ helloPc[l] = "loop"
    /\ helloPc' = [helloPc EXCEPT ![l] = "done"]
    /\ stopDue' = [stopDue EXCEPT ![l] = FALSE]
    /\ Quiet("_hello_loop", None, None, <<>>, <<>>)
    /\ UNCHANGED <<sessionVars, linkVars, attempts, now, uiVars, cacheVars, resVars>>

(***************************************************************************)
(* Resource expectation cache.  The dict _resource_expectations is kept as *)
(* the sequence of its values in insertion order, which is the order in    *)
(* which Python iterates over it.                                          *)
(***************************************************************************)
\* "no expectation" (Python None) where an expectation is optional
NoExp == [id |-> 0, kind |-> "", size |-> 0, sha256 |-> "", encoding |-> "",
          created_at |-> 0, expires_at |-> 0]

ExpIds(exps) == {exps[i].id : i \in 1..Len(exps)}

\* del d[rid]
DictDel(exps, rid) == SelectSeq(exps, LAMBDA e : e.id # rid)

\* d[e.id] = e: a key already present keeps its place
DictPut(exps, e) ==
    IF e.id \in ExpIds(exps)
    THEN [i \in 1..Len(exps) |-> IF exps[i].id = e.id THEN e ELSE exps[i]]
    ELSE Append(exps, e)

\* the key of the greatest creation time instead of the least
OldestRid_Newest(exps) ==
    LET i == CHOOSE j \in 1..Len(exps) :
                 \A k \in 1..Len(exps) : exps[j].created_at >= exps[k].created_at
    IN  exps[i].id

\* min(d.keys(), key=created_at): the first key of the least creation time
OldestRid(exps) ==
    LET i == CHOOSE j \in 1..Len(exps) :
                 /\ \A k \in 1..Len(exps) : exps[j].created_at <= exps[k].created_at
                 /\ \A k \in 1..(j - 1) : exps[k].created_at > exps[j].created_at
    IN  exps[i].id

\* the insertion without the eviction before it
Registered_NoEviction(exps, e) == DictPut(exps, e)

\* the cache after the announcement handler's locked block
Registered(exps, e) ==
    IF Len(exps) >= max_pending_resource_expectations
    THEN IF exps = <<>> THEN exps   \* min() of nothing raises; it is logged
         ELSE DictPut(DictDel(exps, OldestRid(exps)), e)
    ELSE DictPut(exps, e)

\* t == T_RESOURCE_ENVELOPE with a body of the right types; sha256 and
\* encoding are "" when absent
OnResourceEnvelope(rid, kind, size, sha256, encoding) ==
    LET valid == size > 0 /\ size <= max_resource_bytes
        e == [id |-> rid, kind |-> kind, size |-> size, sha256 |-> sha256,
              encoding |-> encoding, created_at |-> now,
              expires_at |-> now + resource_expectation_ttl_s]
    IN  /\ Delivering
        /\ expectations' = IF valid THEN Registered(expectations, e) ELSE expectations
        /\ last' = [op |-> "on_resource_envelope", room |-> None, text |-> None,
                    outcome |-> IF ~valid THEN "dropped"
                                ELSE IF Len(expectations)
                                          < max_pending_resource_expectations
                                THEN "stored"
                                ELSE IF expectations = <<>> THEN "failed"
                                ELSE "stored, oldest evicted"]
        /\ handed' = <<>>
        /\ callbacks' = <<>>
        /\ UNCHANGED <<sessionVars, linkVars, helloVars, now, uiVars, active, resToExp, resVars>>

\* the monotonic clock advances
Tick ==
    /\ now < MaxTime
    /\ now' = now + 1
    /\ UNCHANGED <<sessionVars, linkVars, helloVars, obsVars, cacheVars, resVars,
                   uiVars>>

(***************************************************************************)
(* The transport's resource callbacks.  Each runs in the transport's       *)
(* calling context, one lock acquisition per step; task[r] is the callback *)
(* running on handle r, with its local variable exp.                       *)
(***************************************************************************)
Idle == [pc |-> "idle", exp |-> NoExp]

\* a step of a resource callback, as its caller and the UI see it
TaskStep(cbs) ==
    /\ last' = [op |-> "resource_callback", room |-> None, text |-> None,
                outcome |-> Propagated(cbs, "ok")]
    /\ handed' = <<>>
    /\ callbacks' = cbs

\* Client._resource_advertised up to its capacity check.  The transport calls
\* it when a transfer of `size` bytes is advertised on an idle handle, and
\* again (as the started callback) once the transfer it accepted begins.
_resource_advertised(r, size) ==
    LET first == res[r].status = "none"
        sz == IF first THEN size ELSE res[r].size
        reject == sz > max_resource_bytes
                    \/ Cardinality(active) >= max_active_resources
    IN  /\ task[r].pc = "idle"
        /\ Delivering
        /\ res[r].status \in {"none", "accepted"}
        /\ ~first => size = res[r].size
        /\ res' = [res EXCEPT ![r].size = IF reject /\ first THEN @ ELSE sz,
                              ![r].status = IF reject
                                            THEN (IF first THEN "rejected" ELSE "transferring")
                                            ELSE @]
        /\ task' = [task EXCEPT ![r].pc = IF reject THEN "idle" ELSE "adv_purge"]
        /\ TaskStep(<<>>)
        /\ UNCHANGED <<sessionVars, linkVars, helloVars, now, uiVars, cacheVars>>

\* Client._cleanup_expired_expectations, from _find_resource_expectation
_cleanup_expired_expectations(r) ==
    /\ task[r].pc \in {"adv_purge", "conc_purge"}
    /\ expectations' = SelectSeq(expectations, LAMBDA e : ~(now >= e.expires_at))
    /\ task' = [task EXCEPT ![r].pc = IF @ = "adv_purge" THEN "adv_scan" ELSE "conc_scan"]
    /\ TaskStep(<<>>)
    /\ UNCHANGED <<sessionVars, linkVars, helloVars, now, uiVars, active, resToExp, res>>

\* the last entry of that size instead of the first
FirstOfSize_Last(exps, size) ==
    IF \E i \in 1..Len(exps) : exps[i].size = size
    THEN exps[CHOOSE i \in 1..Len(exps) :
                  /\ exps[i].size = size
                  /\ \A j \in (i + 1)..Len(exps) : exps[j].size # size]
    ELSE NoExp

\* the scan of _find_resource_expectation: the first entry of that size
FirstOfSize(exps, size) ==
    IF \E i \in 1..Len(exps) : exps[i].size = size
    THEN exps[CHOOSE i \in 1..Len(exps) :
                  /\ exps[i].size = size
                  /\ \A j \in 1..(i - 1) : exps[j].size # size]
    ELSE NoExp

\* the buffer is left open
DataClosed_Never(r) == res

\* the buffer of handle r is closed, if it has one
DataClosed(r) ==
    [res EXCEPT ![r].closes = IF HasData(r) /\ @ < 2 THEN @ + 1 ELSE @]

\* Client._find_resource_expectation after the purge: the scan and its return
_find_resource_expectation(r) ==
    LET exp == FirstOfSize(expectations, res[r].size)
    IN  /\ task[r].pc \in {"adv_scan", "conc_scan"}
        /\ IF task[r].pc = "adv_scan"
           THEN /\ task' = [task EXCEPT ![r] = [pc |-> "adv_add", exp |-> exp]]
                /\ UNCHANGED res
           ELSE IF exp = NoExp
           THEN \* no expectation found for the concluded resource
                /\ task' = [task EXCEPT ![r] = Idle]
                /\ res' = DataClosed(r)
           ELSE /\ task' = [task EXCEPT ![r] = [pc |-> "conc_finish", exp |-> exp]]
                /\ UNCHANGED res
        /\ TaskStep(<<>>)
        /\ UNCHANGED <<sessionVars, linkVars, helloVars, now, uiVars, cacheVars>>

\* d[r] = exp on the handle-keyed dict _resource_to_expectation
Bind(m, r, exp) ==
    [x \in (DOMAIN m) \cup {r} |-> IF x = r THEN exp ELSE m[x]]

\* a pop that leaves the key in place
Unbind_Kept(m, r) == m

\* d.pop(r, None): the dict without r
Unbind(m, r) == [x \in (DOMAIN m) \ {r} |-> m[x]]

\* Client._resource_advertised from the result of the find to its return True
AcceptResource(r) ==
    /\ task[r].pc = "adv_add"
    /\ active' = active \cup {r}
    /\ resToExp' = IF task[r].exp = NoExp THEN resToExp
                   ELSE Bind(resToExp, r, task[r].exp)
    /\ res' = [res EXCEPT ![r].status =
                   IF @ = "none" THEN "accepted" ELSE "transferring"]
    /\ task' = [task EXCEPT ![r] = Idle]
    /\ TaskStep(<<>>)
    /\ UNCHANGED <<sessionVars, linkVars, helloVars, now, uiVars, expectations>>

\* Client._resource_concluded up to the lookup of the bound expectation; the
\* transport calls it once for a transfer that has ended
_resource_concluded(r) ==
    LET matched == IF r \in DOMAIN resToExp THEN resToExp[r] ELSE NoExp
    IN  /\ task[r].pc = "idle"
        /\ res[r].status \in {"complete", "failed"}
        /\ ~res[r].concluded
        /\ res' = [res EXCEPT ![r].concluded = TRUE]
        /\ active' = active \ {r}
        /\ resToExp' = Unbind(resToExp, r)
        /\ task' = [task EXCEPT ![r] =
               IF matched = NoExp THEN [pc |-> "conc_purge", exp |-> NoExp]
               ELSE [pc |-> "conc_finish", exp |-> matched]]
        /\ TaskStep(<<>>)
        /\ UNCHANGED <<sessionVars, linkVars, helloVars, now, uiVars, expectations>>

\* the first entry equal to exp leaves the pending map
WithoutFirstEqual(exps, exp) ==
    IF \E i \in 1..Len(exps) : exps[i] = exp
    THEN LET i == CHOOSE j \in 1..Len(exps) :
                      exps[j] = exp /\ \A k \in 1..(j - 1) : exps[k] # exp
         IN  SubSeq(exps, 1, i - 1) \o SubSeq(exps, i + 1, Len(exps))
    ELSE exps

\* the checks without the one of the kind
Delivers_AnyKind(exp, status, digest, decodes) ==
    /\ status = "complete"
    /\ decodes
    /\ (exp.sha256 = "" \/ exp.sha256 = digest)

\* the checks of _resource_concluded between the removal of the expectation
\* and on_notice: status COMPLETE, buffer read, digest, kind, decode
Delivers(exp, status, digest, decodes) ==
    /\ status = "complete"
    /\ decodes
    /\ (exp.sha256 = "" \/ exp.sha256 = digest)
    /\ exp.kind \in {"notice", "motd"}

\* Client._resource_concluded from the removal of the expectation to its end:
\* status, read and close of the buffer, digest, kind, decode, on_notice.
\* `digest` is the SHA-256 of the bytes received; `decodes` is whether the
\* buffer can be read and its bytes decode in the expectation's encoding.
ConcludeResource(r, digest, decodes) ==
    LET exp == task[r].exp
    IN  /\ task[r].pc = "conc_finish"
        /\ expectations' = WithoutFirstEqual(expectations, exp)
        /\ res' = [DataClosed(r) EXCEPT ![r].noticed =
                      @ \/ Delivers(exp, res[r].status, digest, decodes)]
        /\ task' = [task EXCEPT ![r] = Idle]
        /\ TaskStep(IF Delivers(exp, res[r].status, digest, decodes)
                    THEN <<"on_notice">> ELSE <<>>)
        /\ UNCHANGED <<sessionVars, linkVars, helloVars, now, uiVars, active, resToExp>>

(***************************************************************************)
(* PendingMessageTracker (tui.py) and the UI code that uses it.  The dict  *)
(* _pending is kept as the sequence of its entries [id, room, text, sent]  *)
(* in insertion order.  Each timeout_checker thread is a sweeper: "check"  *)
(* at its loop condition, "report" in its for loop with the entries still  *)
(* to report, "callback" inside on_timeout_callback, "sleep", "dead".      *)
(***************************************************************************)
engineVars == <<sessionVars, linkVars, helloVars, now, cacheVars, resVars>>

\* what a step of the tracker or of the UI leaves to see
TrackerStep(op, room, text, outcome, cbs) ==
    /\ last' = [op |-> op, room |-> room, text |-> text, outcome |-> outcome]
    /\ handed' = <<>>
    /\ callbacks' = cbs

Alive(t) == sweeper[t].pc \notin {"none", "dead"}

\* the entry of msg_id in d, NoEntry when there is none (dict.get)
NoEntry == [id |-> 0, room |-> None, text |-> None, sent |-> 0]

Entry(d, msg_id) ==
    IF msg_id \in ExpIds(d)
    THEN d[CHOOSE i \in 1..Len(d) : d[i].id = msg_id]
    ELSE NoEntry

\* PendingMessageTracker.add: self._pending[msg_id] = (room, text, time.time())
Added(d, msg_id, room, text) ==
    DictPut(d, [id |-> msg_id, room |-> room, text |-> text, sent |-> now])

add(msg_id, room, text) ==
    /\ joining = 0
    /\ reported[msg_id] = 0
    /\ msg_id \notin ExpIds(_pending)
    /\ \A t \in Threads : msg_id \notin ExpIds(sweeper[t].queue)
    /\ _pending' = Added(_pending, msg_id, room, text)
    /\ TrackerStep("add", room, text, "ok", <<>>)
    /\ UNCHANGED <<engineVars, raising, _checker_running, _checker_thread, sweeper,
                   joining, reported, messages>>

\* a lookup that leaves the entry in place
Popped_Kept(d, msg_id) == d

\* self._pending.pop(msg_id, None): the dict afterwards
Popped(d, msg_id) == DictDel(d, msg_id)

\* PendingMessageTracker.confirm
confirm(msg_id) ==
    LET e == Entry(_pending, msg_id)
    IN  /\ _pending' = Popped(_pending, msg_id)
        /\ TrackerStep("confirm", e.room, e.text,
                       IF e = NoEntry THEN "not found" ELSE "found", <<>>)
        /\ UNCHANGED <<engineVars, raising, _checker_running, _checker_thread,
                       sweeper, joining, reported, messages>>

\* PendingMessageTracker.clear
clear ==
    /\ joining = 0
    /\ _pending' = <<>>
    /\ TrackerStep("clear", None, None, "ok", <<>>)
    /\ UNCHANGED <<engineVars, raising, _checker_running, _checker_thread, sweeper,
                   joining, reported, messages>>

\* the thread a start makes: threads are numbered as they are created
NewThread == 1 + Cardinality({t \in Threads : sweeper[t].pc # "none"})

\* PendingMessageTracker.start_checker, on the three fields it writes
StartChecker ==
    IF _checker_running
    THEN UNCHANGED <<_checker_running, _checker_thread, sweeper>>
    ELSE /\ NewThread \in Threads
         /\ _checker_running' = TRUE
         /\ _checker_thread' = NewThread
         /\ sweeper' = [sweeper EXCEPT ![NewThread] = [pc |-> "check", queue |-> <<>>]]

start_checker ==
    /\ joining = 0
    /\ StartChecker
    /\ TrackerStep("start_checker", None, None, "ok", <<>>)
    /\ UNCHANGED <<engineVars, raising, _pending, joining, reported, messages>>

\* PendingMessageTracker.stop_checker up to its join: the flag is cleared,
\* and a thread that is alive is joined for at most two seconds
StopChecker ==
    /\ _checker_running' = FALSE
    /\ joining' = IF _checker_thread # 0 /\ Alive(_checker_thread)
                  THEN _checker_thread ELSE 0
    /\ UNCHANGED <<_checker_thread, sweeper>>

stop_checker ==
    /\ joining = 0
    /\ StopChecker
    /\ TrackerStep("stop_checker", None, None,
                   IF joining' = 0 THEN "ok" ELSE "joining", <<>>)
    /\ UNCHANGED <<engineVars, raising, _pending, reported, messages>>

\* the join of stop_checker ends: the thread has finished, or the two
\* seconds pass while it is still inside a callback; either way the thread
\* is forgotten and stop_checker returns
stop_checker_join ==
    /\ joining # 0
    /\ sweeper[joining].pc \in {"dead", "callback"}
    /\ joining' = 0
    /\ _checker_thread' = 0
    /\ TrackerStep("stop_checker", None, None,
                   IF sweeper[joining].pc = "dead" THEN "ok" ELSE "join timed out",
                   <<>>)
    /\ UNCHANGED <<engineVars, raising, _pending, _checker_running, sweeper,
                   reported, messages>>

\* get_timed_out's selection: the entries sent longer ago than the timeout
Expired(d) == SelectSeq(d, LAMBDA e : now - e.sent > timeout_seconds)

\* a sweep that leaves the entries it returns in the map
Swept_Kept(d) == d

\* get_timed_out's removal: the map without the entries that timed out
Swept(d) == SelectSeq(d, LAMBDA e : e.id \notin ExpIds(Expired(d)))

\* timeout_checker at `while self._checker_running`: it ends, or calls
\* get_timed_out, which removes and returns the entries that timed out
timeout_checker(t) ==
    /\ sweeper[t].pc = "check"
    /\ IF _checker_running
       THEN /\ sweeper' = [sweeper EXCEPT ![t] =
                              [pc |-> "report", queue |-> Expired(_pending)]]
            /\ _pending' = Swept(_pending)
       ELSE /\ sweeper' = [sweeper EXCEPT ![t] = [pc |-> "dead", queue |-> <<>>]]
            /\ UNCHANGED _pending
    /\ TrackerStep("timeout_checker", None, None, "ok", <<>>)
    /\ UNCHANGED <<engineVars, raising, _checker_running, _checker_thread, joining,
                   reported, messages>>

\* text in msg, for the text of a message shown
IsIn(text, shown) ==
    \E i \in 0..(Len(shown) - Len(text)) : SubSeq(shown, i + 1, i + Len(text)) = text

\* the first message shown in `room` that is pending and holds `text` gets
\* `style` and `shown`; the list is left alone when there is none
Restyled(msgs, room, text, style, shown) ==
    LET hits == {i \in 1..Len(msgs) :
                    /\ msgs[i].room = room
                    /\ msgs[i].style = "own_msg_pending"
                    /\ IsIn(text, msgs[i].text)}
    IN  IF hits = {} THEN msgs
        ELSE LET i == CHOOSE j \in hits : \A k \in hits : j <= k
             IN  [msgs EXCEPT ![i] = [style |-> style, room |-> room,
                                      text |-> shown]]

\* the for loop of timeout_checker: done, or the next entry is handed to
\* on_timeout_callback (RRCTextualApp._handle_message_timeout, which marks
\* the message failed before it asks the UI thread to redraw)
timeout_checker_report(t) ==
    LET q == sweeper[t].queue
    IN  /\ sweeper[t].pc = "report"
        /\ IF q = <<>>
           THEN /\ sweeper' = [sweeper EXCEPT ![t].pc = "sleep"]
                /\ TrackerStep("timeout_checker", None, None, "ok", <<>>)
                /\ UNCHANGED <<reported, messages>>
           ELSE /\ sweeper' = [sweeper EXCEPT ![t] =
                                  [pc |-> "callback", queue |-> Tail(q)]]
                /\ reported' = [reported EXCEPT ![q[1].id] = IF @ < 2 THEN @ + 1 ELSE @]
                /\ messages' = Restyled(messages, q[1].room, q[1].text,
                                        "own_msg_failed", q[1].text)
                /\ TrackerStep("timeout_checker", q[1].room, q[1].text, "ok",
                               <<"on_timeout">>)
        /\ UNCHANGED <<engineVars, raising, _pending, _checker_running,
                       _checker_thread, joining>>

\* on_timeout_callback returns, or raises: the except clause of the loop
\* then logs the error and sleeps, and the rest of the list is forgotten
timeout_checker_callback(t, raises) ==
    /\ sweeper[t].pc = "callback"
    /\ sweeper' = [sweeper EXCEPT ![t] =
                      IF raises THEN [pc |-> "sleep", queue |-> <<>>]
                      ELSE [pc |-> "report", queue |-> sweeper[t].queue]]
    /\ TrackerStep("timeout_checker", None, None,
                   IF raises THEN "callback raised" ELSE "ok", <<>>)
    /\ UNCHANGED <<engineVars, raising, _pending, _checker_running, _checker_thread,
                   joining, reported, messages>>

\* time.sleep(1.0) ends
timeout_checker_sleep(t) ==
    /\ sweeper[t].pc = "sleep"
    /\ sweeper' = [sweeper EXCEPT ![t].pc = "check"]
    /\ TrackerStep("timeout_checker", None, None, "ok", <<>>)
    /\ UNCHANGED <<engineVars, raising, _pending, _checker_running, _checker_thread,
                   joining, reported, messages>>

\* the steps of the sweeper threads
Sweepers ==
    \/ \E t \in Threads : timeout_checker(t)
    \/ \E t \in Threads : timeout_checker_report(t)
    \/ \E t \in Threads, raises \in BOOLEAN : timeout_checker_callback(t, raises)
    \/ \E t \in Threads : timeout_checker_sleep(t)

\* RRCTextualApp._send_message after client.msg has returned the id of the
\* message sent: the message is shown as pending, tracked, and the checker
\* is started
_send_message(room, text) ==
    LET msg_id == Len(messages) + 1
    IN  /\ joining = 0
        /\ msg_id \in MsgIds
        /\ messages' = Append(messages, [style |-> "own_msg_pending",
                                         room |-> room, text |-> text])
        /\ _pending' = Added(_pending, msg_id, room, text)
        /\ StartChecker
        /\ TrackerStep("_send_message", room, text, "ok", <<>>)
        /\ UNCHANGED <<engineVars, raising, joining, reported>>

\* RRCTextualApp._handle_rrc_message for a MSG whose source is the local
\* identity: the pending record of its id is popped, and the message shown
\* is marked confirmed when room and text of the record equal the echo's
_handle_rrc_message(msg_id, room, body) ==
    LET e == Entry(_pending, msg_id)
        matches == e # NoEntry /\ e.room = room /\ e.text = body
    IN  /\ _pending' = Popped(_pending, msg_id)
        /\ messages' = IF matches
                       THEN Restyled(messages, room, e.text, "own_msg_confirmed", body)
                       ELSE messages
        /\ TrackerStep("_handle_rrc_message", room, body,
                       IF e = NoEntry THEN "not pending"
                       ELSE IF matches THEN "confirmed" ELSE "mismatch", <<>>)
        /\ UNCHANGED <<engineVars, raising, _checker_running, _checker_thread,
                       sweeper, joining, reported>>

\* RRCTextualApp._cleanup_after_disconnect, which action_disconnect runs
\* after client.close(): the tracker is cleared and its checker stopped
_cleanup_after_disconnect ==
    /\ joining = 0
    /\ link = 0
    /\ _pending' = <<>>
    /\ StopChecker
    /\ TrackerStep("_cleanup_after_disconnect", None, None,
                   IF joining' = 0 THEN "ok" ELSE "joining", <<>>)
    /\ UNCHANGED <<engineVars, raising, reported, messages>>

(***************************************************************************)
(* Initial state: a Client just constructed, no nickname given.            *)
(***************************************************************************)
Init ==
    /\ link = 0
    /\ rooms = {}
    /\ nickname = None
    /\ max_nick_bytes = DEFAULT_MAX_NICK_BYTES
    /\ max_room_name_bytes = DEFAULT_MAX_ROOM_NAME_BYTES
    /\ max_msg_body_bytes = DEFAULT_MAX_MSG_BODY_BYTES
    /\ max_rooms_per_session = DEFAULT_MAX_ROOMS_PER_SESSION
    /\ rate_limit_msgs_per_minute = DEFAULT_RATE_LIMIT_MSGS_PER_MINUTE
    /\ welcomed = FALSE
    /\ linksCreated = 0
    /\ linkStatus = [l \in Links |-> "none"]
    /\ waiting = 0
    /\ connecting = [pc |-> "idle", wait |-> FALSE, link |-> 0]
    /\ helloPc = [l \in Links |-> "none"]
    /\ stopDue = [l \in Links |-> FALSE]
    /\ raising = {}
    /\ _pending = <<>>
    /\ _checker_running = FALSE
    /\ _checker_thread = 0
    /\ sweeper = [t \in Threads |-> [pc |-> "none", queue |-> <<>>]]
    /\ joining = 0
    /\ reported = [i \in MsgIds |-> 0]
    /\ messages = <<>>
    /\ attempts = [l \in Links |-> 0]
    /\ last = [op |-> "init", room |-> None, text |-> None, outcome |-> "ok"]
    /\ handed = <<>>
    /\ callbacks = <<>>
    /\ now = 0
    /\ expectations = <<>>
    /\ active = {}
    /\ resToExp = <<>>
    /\ res = [r \in Resources |->
                 [size |-> 0, status |-> "none", closes |-> 0, cancelled |-> FALSE,
                  concluded |-> FALSE, noticed |-> FALSE]]
    /\ task = [r \in Resources |-> [pc |-> "idle", exp |-> NoExp]]

(***************************************************************************)
(* SpecRooms: room membership.  The UI joins and parts, the hub confirms   *)
(* with JOINED / PARTED and renegotiates the two room limits by WELCOME,   *)
(* links come and go.  The handshake task reads link and welcomed and      *)
(* writes neither rooms nor limits; its steps are left to SpecSend.  The   *)
(* specification follows one connection from connect to its end.           *)
(***************************************************************************)
RoomLimitMaps == LimitMaps({"room", "rooms"}, {}, {1})

OneConnection ==
    \/ linksCreated = 0 /\ connect
    \/ \E l \in Links : _established(l)
    \/ \E l \in Links : _established_identify_fails(l)
    \/ \E l \in Links : _closed(l)
    \/ close

NextRooms ==
    \/ OneConnection
    \/ \E room \in RoomInputs : join(room)
    \/ \E room \in RoomInputs : part(room)
    \/ \E room \in RoomInputs \cup {None} : OnJoined(room)
    \/ \E room \in RoomInputs \cup {None} : OnParted(room)
    \/ \E lim \in RoomLimitMaps : OnWelcome(lim)

SpecRooms == Init /\ [][NextRooms]_vars

\* the same commands and envelopes over every link the engine may create: a
\* link superseded while still pending lives on beside the current one
NextLinkedRooms ==
    \/ connect
    \/ \E l \in Links : _established(l)
    \/ \E l \in Links : _established_identify_fails(l)
    \/ \E l \in Links : _closed(l)
    \/ close
    \/ \E room \in RoomInputs : join(room)
    \/ \E room \in RoomInputs : part(room)
    \/ \E room \in RoomInputs \cup {None} : OnJoined(room)
    \/ \E room \in RoomInputs \cup {None} : OnParted(room)
    \/ \E lim \in RoomLimitMaps : OnWelcome(lim)

SpecLinkedRooms == Init /\ [][NextLinkedRooms]_vars

IsValueError(outcome) ==
    outcome \in {"ValueError: Room name cannot be empty.",
                 "ValueError: Room name too long",
                 "ValueError: Cannot join more rooms",
                 "ValueError: Message text cannot be empty.",
                 "ValueError: Message too long",
                 "ValueError: Nickname too long"}

\* C2 (as claimed): join(room) and part(room) with a normalized name that is
\* empty or longer in UTF-8 bytes than max_room_name_bytes raise a validation
\* error, send no envelope and leave the joined-room set unchanged.
C2_InvalidRoomRejected ==
    [][\A room \in RoomInputs :
          ((join(room) \/ part(room))
              /\ (RoomKey(room) = <<>> \/ ByteLen(RoomKey(room)) > max_room_name_bytes))
          => (IsValueError(last'.outcome) /\ handed' = <<>> /\ rooms' = rooms)]_vars

\* C3 (as claimed): join at the per-session cap raises a validation error and
\* sends nothing; below the cap, with a valid name, exactly one JOIN envelope
\* for the normalized room is sent and join does not change the joined-room set.
C3_JoinAtCapOrSends ==
    [][last'.op = "join" =>
          LET r == RoomKey(last'.room)
          IN  IF Cardinality(rooms) >= max_rooms_per_session
              THEN IsValueError(last'.outcome) /\ handed' = <<>>
              ELSE (r # <<>> /\ ByteLen(r) <= max_room_name_bytes)
                   => (handed' = <<make_envelope("JOIN", r, None)>>
                         /\ rooms' = rooms)]_vars

\* C3 (amended): join at the per-session cap raises a validation error and
\* sends nothing; below the cap, with a valid name, a link attached and a JOIN
\* payload that passes the packet-fit probe, exactly one JOIN envelope for the
\* normalized room is sent; with no link attached join raises the
\* not-connected error, and when the probe fails the message-too-large error,
\* sending nothing; join never changes the joined-room set.
C3_JoinAtCapOrSendsWhenConnected ==
    [][last'.op = "join" =>
          LET r == RoomKey(last'.room)
              env == make_envelope("JOIN", r, None)
              valid == r # <<>> /\ ByteLen(r) <= max_room_name_bytes
          IN  /\ rooms' = rooms
              /\ Cardinality(rooms) >= max_rooms_per_session
                    => (IsValueError(last'.outcome) /\ handed' = <<>>)
              /\ (Cardinality(rooms) < max_rooms_per_session /\ valid) =>
                    /\ (link # 0 /\ _packet_would_fit(encode(env)))
                          => (last'.outcome = "ok" /\ handed' = <<env>>)
                    /\ link = 0
                          => (last'.outcome = "RuntimeError: Not connected to hub."
                                /\ handed' = <<>>)
                    /\ (link # 0 /\ ~_packet_would_fit(encode(env)))
                          => (last'.outcome = "MessageTooLargeError"
                                /\ handed' = <<>>)]_vars

\* join refused at the cap while a link is attached
C3_Witness ==
    /\ last.op = "join"
    /\ last.outcome = "ValueError: Cannot join more rooms"
    /\ Cardinality(rooms) >= max_rooms_per_session
    /\ link # 0

\* C4 (as claimed): after any part(room) that passes room-name validation the
\* normalized room is absent from the joined-room set, sent or not.
C4_PartAlwaysRemoves ==
    (last.op = "part" /\ RoomKey(last.room) # <<>>) => RoomKey(last.room) \notin rooms

\* the other spelling of a letter, and the names one edit away from a name:
\* a space more in front or behind, or one letter in the other case
SwapCase(c) == IF c = "G" THEN "g" ELSE IF c = "g" THEN "G" ELSE c

Respelled(n) ==
    {<<" ">> \o n, n \o <<" ">>}
        \cup {[n EXCEPT ![i] = SwapCase(n[i])] : i \in 1..Len(n)}

\* C5: names that differ only in letter case or surrounding whitespace denote
\* the same room key in join, part, JOINED and PARTED: the key of a name is
\* the key of each of its respellings, normalization is idempotent and agrees
\* with the UI's normalize_room_name, the envelope sent carries the key, a
\* part that succeeds and a PARTED leave the key out of the joined-room set,
\* and a JOINED puts it in.
C5_SameRoomKey ==
    (last.op \in {"join", "part", "on_joined", "on_parted"} /\ last.room # None) =>
        LET n == last.room
            k == RoomKey(n)
        IN  /\ \A m \in Respelled(n) : RoomKey(m) = k
            /\ RoomKey(k) = k
            /\ normalize_room_name(n) = k
            /\ (last.op \in {"join", "part"} /\ last.outcome = "ok")
                  => (Len(handed) = 1 /\ handed[1].room = k)
            /\ (last.op = "part" /\ last.outcome = "ok") => k \notin rooms
            /\ (last.op = "on_parted" /\ n # <<>>) => k \notin rooms
            /\ (last.op = "on_joined" /\ n # <<>>) => k \in rooms

\* JOINED for "G " has put the room in the set under the key "g"
C5_Witness ==
    /\ last.op = "on_joined"
    /\ last.room = <<"G", " ">>
    /\ <<"g">> \in rooms

(***************************************************************************)
(* SpecMsg: sending messages over one connection.  The UI sets a nickname  *)
(* and sends texts, the hub renegotiates the message and nickname limits.  *)
(***************************************************************************)
MsgLimitMaps == LimitMaps({"msg", "nick"}, {}, {1, 3})

\* room names given to msg: one that normalizes to nothing, one to "g"
MsgRooms == {<<" ">>, <<"G", " ">>}

NextMsg ==
    \/ OneConnection
    \/ \E n \in NickInputs \cup {None} : set_nickname(n)
    \/ \E room \in MsgRooms, text \in TextInputs : msg(room, text)
    \/ \E lim \in MsgLimitMaps : OnWelcome(lim)

SpecMsg == Init /\ [][NextMsg]_vars

\* the envelope msg builds for the room and text of the last call
MsgEnvelope == StampNick(make_envelope("MSG", RoomKey(last.room), last.text))

\* C1 (as claimed): with a link attached, every text whose UTF-8 length
\* equals max_msg_body_bytes is sent and msg returns the message id; every
\* text longer than that raises a validation error and nothing is sent.
C1_MsgAtLimitSent ==
    (last.op = "msg" /\ link # 0) =>
        /\ ByteLen(last.text) = max_msg_body_bytes
              => (last.outcome = "ok" /\ handed = <<MsgEnvelope>>)
        /\ ByteLen(last.text) > max_msg_body_bytes
              => (IsValueError(last.outcome) /\ handed = <<>>)

\* C1 (amended): with a link attached, every text that is not blank, whose
\* UTF-8 length equals max_msg_body_bytes, sent to a room whose normalized
\* name is not empty in an envelope that passes the packet-fit probe, is
\* sent and msg returns the message id; every text longer than the limit
\* raises a validation error and nothing is sent.
C1_MsgAtLimitSentWhenValid ==
    (last.op = "msg" /\ link # 0) =>
        /\ (/\ ByteLen(last.text) = max_msg_body_bytes
            /\ Strip(last.text) # <<>>
            /\ RoomKey(last.room) # <<>>
            /\ _packet_would_fit(encode(MsgEnvelope)))
              => (last.outcome = "ok" /\ handed = <<MsgEnvelope>>)
        /\ ByteLen(last.text) > max_msg_body_bytes
              => (IsValueError(last.outcome) /\ handed = <<>>)

\* a text of exactly the limit has been sent, one of its characters two bytes long
C1_Witness ==
    /\ last.op = "msg"
    /\ link # 0
    /\ ByteLen(last.text) = max_msg_body_bytes
    /\ Len(last.text) < ByteLen(last.text)
    /\ last.outcome = "ok"
    /\ handed = <<MsgEnvelope>>

(***************************************************************************)
(* SpecSend: every sender of one connection: the commands join, part, msg  *)
(* and ping, the PONG reply to an inbound PING, and the handshake task.    *)
(***************************************************************************)
NextSend ==
    \/ OneConnection
    \/ \E e \in {"TimeoutError: identity", "ValueError: hash"} : connect_fails(e)
    \/ \E n \in NickInputs \cup {None} : set_nickname(n)
    \/ \E room \in MsgRooms : join(room)
    \/ \E room \in MsgRooms : part(room)
    \/ \E room \in MsgRooms, text \in TextInputs : msg(room, text)
    \/ ping
    \/ \E body \in TextInputs \cup {None} : OnPing(body)
    \/ OnPong
    \/ \E lim \in MsgLimitMaps : OnWelcome(lim)
    \/ \E l \in Links : _hello_loop(l)
    \/ \E l \in Links : _hello_loop_send(l)
    \/ \E l \in Links : _hello_deadline(l)

SpecSend == Init /\ [][NextSend]_vars

\* C6 (as claimed): no envelope of any type is handed to the transport unless
\* its encoded payload passes the packet-fit probe; when the probe fails the
\* on-resource-warning callback is invoked and nothing is sent.
C6_NothingSentUnprobed ==
    /\ \A i \in 1..Len(handed) : _packet_would_fit(encode(handed[i]))
    /\ last.outcome = "MessageTooLargeError"
          => (handed = <<>> /\ callbacks = <<"on_resource_warning">>)

(***************************************************************************)
(* SpecCache: the expectation cache of one connection.  The hub announces  *)
(* resources of one valid size under every id, and resources of a size the *)
(* handler drops; the clock advances, the transport advertises, starts and *)
(* concludes transfers on one handle, links come and go.                   *)
(***************************************************************************)
\* ids the hub announces: one more than the cache holds
RidInputs == 1..(max_pending_resource_expectations + 1)

\* sizes announced and advertised: none, the valid ones, one too large
SizeInputs == 0..(max_resource_bytes + 1)

\* the callbacks of the transport on the handles of R, for transfers of the
\* sizes of S whose payloads have the digests of D
ResourceCallbacksOf(R, S, D) ==
    \/ \E r \in R, size \in S : _resource_advertised(r, size)
    \/ \E r \in R : _cleanup_expired_expectations(r)
    \/ \E r \in R : _find_resource_expectation(r)
    \/ \E r \in R : AcceptResource(r)
    \/ \E r \in R, status \in {"complete", "failed"} : TransferEnds(r, status)
    \/ \E r \in R : _resource_concluded(r)
    \/ \E r \in R, digest \in D, decodes \in BOOLEAN :
           ConcludeResource(r, digest, decodes)

\* the same for payloads of one digest
ResourceCallbacks(R, S) == ResourceCallbacksOf(R, S, {"d1"})

NextCache ==
    \/ OneConnection
    \/ Tick
    \/ \E rid \in RidInputs : OnResourceEnvelope(rid, "motd", 1, "", "")
    \/ \E size \in {0, max_resource_bytes + 1} :
           OnResourceEnvelope(1, "motd", size, "", "")
    \/ ResourceCallbacks({1}, {1})

SpecCache == Init /\ [][NextCache]_vars

\* the entry of id rid in the cache exps
ExpOf(exps, rid) == exps[CHOOSE i \in 1..Len(exps) : exps[i].id = rid]

\* C7: in every reachable state the expectation cache holds at most
\* max_pending_resource_expectations entries (one per id).
C7_CacheBounded ==
    /\ Len(expectations) <= max_pending_resource_expectations
    /\ Cardinality(ExpIds(expectations)) = Len(expectations)

\* the cache is full while a transfer has been accepted and time has passed
C7_Witness ==
    /\ Len(expectations) = max_pending_resource_expectations
    /\ res[1].status = "transferring"
    /\ now > 0

\* C8: a valid announcement registered while the cache is at capacity evicts
\* exactly one entry, one of the least creation time, and then inserts the
\* new entry: the announced id is present afterwards with the current time
\* as its creation time, and every other entry is kept as it was.
C8_EvictsOldest ==
    [][(/\ last'.op = "on_resource_envelope"
        /\ last'.outcome # "dropped"
        /\ now' = now
        /\ Len(expectations) >= max_pending_resource_expectations) =>
        \E rid \in RidInputs :
          /\ OnResourceEnvelope(rid, "motd", 1, "", "")
          /\ rid \in ExpIds(expectations')
          /\ ExpOf(expectations', rid).created_at = now
          /\ ExpOf(expectations', rid).size = 1
          /\ \E old \in ExpIds(expectations) :
                /\ \A i \in 1..Len(expectations) :
                       ExpOf(expectations, old).created_at
                           <= expectations[i].created_at
                /\ ExpIds(expectations') = (ExpIds(expectations) \ {old}) \cup {rid}
                /\ \A id \in ExpIds(expectations) \ {old, rid} :
                       ExpOf(expectations', id) = ExpOf(expectations, id)]_vars

\* an announcement has just evicted the oldest of entries of different ages
C8_Witness ==
    /\ last.op = "on_resource_envelope"
    /\ last.outcome = "stored, oldest evicted"
    /\ Len(expectations) = max_pending_resource_expectations
    /\ \E i \in 1..Len(expectations) : expectations[i].created_at < now

(***************************************************************************)
(* SpecExpiry: the same, with announcements and transfers of every size.   *)
(***************************************************************************)
NextExpiry ==
    \/ OneConnection
    \/ Tick
    \/ \E rid \in RidInputs, size \in SizeInputs :
           OnResourceEnvelope(rid, "motd", size, "", "")
    \/ ResourceCallbacks({1}, SizeInputs)

SpecExpiry == Init /\ [][NextExpiry]_vars

\* C9 (as claimed): _find_resource_expectation never returns an expectation
\* whose expires_at has been reached when it returns, also when time advances
\* between its purge and its scan; the entry it returns has the advertised size.
C9_NeverReturnsExpired ==
    [][\A r \in Resources :
          (_find_resource_expectation(r) /\ FirstOfSize(expectations, res[r].size) # NoExp)
          => LET exp == FirstOfSize(expectations, res[r].size)
             IN  now < exp.expires_at /\ exp.size = res[r].size]_vars

(***************************************************************************)
(* SpecTransfers: the active transfers of one connection.  The hub         *)
(* announces one resource, the transport runs its callbacks on every       *)
(* handle, in parallel on different handles.                               *)
(***************************************************************************)
NextTransfers ==
    \/ OneConnection
    \/ Tick
    \/ OnResourceEnvelope(1, "motd", 1, "", "")
    \/ ResourceCallbacks(Resources, {1, max_resource_bytes + 1})

SpecTransfers == Init /\ [][NextTransfers]_vars

\* C10 (as claimed): in every reachable state at most max_active_resources
\* transfers are active, also when advertise and started callbacks run in
\* parallel and when transfers are accepted without a matching expectation.
C10_ActiveBounded == Cardinality(active) <= max_active_resources

(***************************************************************************)
(* SpecDelivery: announced resources and the transfers that carry them.    *)
(* The hub announces resources of one size under two ids, of a kind the    *)
(* engine delivers and one it does not, with a digest declared or not; the *)
(* transport moves one transfer whose payload has either digest.           *)
(***************************************************************************)
AnnouncedKinds == {"motd", "blob"}

\* digests of payloads; "" in an announcement is "none declared"
Digests == {"d1", "d2"}

NextDelivery ==
    \/ OneConnection
    \/ Tick
    \/ \E rid \in {1, 2}, kind \in AnnouncedKinds, sha256 \in {"", "d1"} :
           OnResourceEnvelope(rid, kind, 1, sha256, "")
    \/ ResourceCallbacksOf({1}, {1}, Digests)

SpecDelivery == Init /\ [][NextDelivery]_vars

\* two expectations tell the engine the same about a transfer
SameMetadata(a, b) ==
    /\ a.kind = b.kind
    /\ a.size = b.size
    /\ a.sha256 = b.sha256
    /\ a.encoding = b.encoding

\* C11 (as claimed): an announcement of kind "motd" or "notice" and size s
\* that is pending and unexpired when a transfer of size s is matched, on
\* advertise or (for a transfer accepted speculatively) on conclude, is the
\* one the transfer is resolved to, so that the transfer is delivered under
\* the digest and encoding that announcement declared.
C11_AnnouncedTransferDelivered ==
    [][\A r \in Resources :
          _find_resource_expectation(r) =>
              \A i \in 1..Len(expectations) :
                  (/\ expectations[i].size = res[r].size
                   /\ now < expectations[i].expires_at
                   /\ expectations[i].kind \in {"motd", "notice"})
                  => SameMetadata(task'[r].exp, expectations[i])]_vars

\* C11 (amended): an announcement of size s that is the first entry of that
\* size in the cache when a transfer of size s is matched is the one the
\* transfer is resolved to; a resolution made on advertise or start is bound
\* to the transfer and kept until the concluded callback takes it or a
\* teardown clears it; and a transfer resolved to an announcement of kind
\* "motd" or "notice" that concludes COMPLETE with a readable, decodable
\* payload whose digest is the declared one (or none was declared) fires
\* exactly one on-notice callback.
C11_FirstAnnouncedTransferDelivered ==
    [][\A r \in Resources :
          /\ _find_resource_expectation(r) =>
                \A i \in 1..Len(expectations) :
                    (/\ expectations[i].size = res[r].size
                     /\ \A j \in 1..(i - 1) : expectations[j].size # res[r].size)
                    => task'[r].exp = expectations[i]
          /\ (AcceptResource(r) /\ task[r].exp # NoExp) =>
                (r \in DOMAIN resToExp' /\ resToExp'[r] = task[r].exp)
          /\ (r \in DOMAIN resToExp /\ r \in DOMAIN resToExp'
                 /\ resToExp'[r] # resToExp[r]) => AcceptResource(r)
          /\ (r \in DOMAIN resToExp /\ r \notin DOMAIN resToExp') =>
                \/ _resource_concluded(r) /\ task'[r].exp = resToExp[r]
                \/ resToExp' = <<>> /\ expectations' = <<>> /\ active' = {}
          /\ \A digest \in Digests, decodes \in BOOLEAN :
                (/\ ConcludeResource(r, digest, decodes)
                 /\ res[r].status = "complete"
                 /\ decodes
                 /\ task[r].exp.kind \in {"motd", "notice"}
                 /\ task[r].exp.sha256 \in {"", digest})
                => callbacks' = <<"on_notice">>]_vars

\* a transfer announced as "motd" with a digest has concluded COMPLETE and
\* its notice has been delivered
C11_Witness ==
    /\ last.op = "resource_callback"
    /\ callbacks = <<"on_notice">>
    /\ res[1].status = "complete"
    /\ res[1].concluded
    /\ task[1].pc = "idle"

\* C12 (as claimed): the buffer of a transfer is closed at most once over the
\* transfer's life, whichever of conclusion, close() and the link-closed
\* callback end it and in whatever order they run.
C12_BufferClosedAtMostOnce == \A r \in Resources : res[r].closes <= 1

\* C13: a step of the concluded callback invokes on-notice only if the
\* transfer's status is COMPLETE, an expectation was resolved for it, the
\* digest declared (if any) is the digest of the bytes received, and the
\* expectation's kind is "notice" or "motd"; no other step of a resource
\* callback invokes it.
C13_NoticeOnlyIfVerified ==
    [][(last'.op = "resource_callback" /\ callbacks' # <<>> /\ now' = now) =>
          \E r \in Resources, digest \in Digests :
              /\ ConcludeResource(r, digest, TRUE)
              /\ callbacks' = <<"on_notice">>
              /\ res[r].status = "complete"
              /\ task[r].exp # NoExp
              /\ task[r].exp.sha256 \in {"", digest}
              /\ task[r].exp.kind \in {"notice", "motd"}]_vars

\* a transfer that failed has been concluded against an expectation of kind
\* "motd" without any callback
C13_Witness ==
    /\ last.op = "resource_callback"
    /\ callbacks = <<>>
    /\ res[1].status = "failed"
    /\ res[1].concluded
    /\ task[1].pc = "idle"
    /\ ~res[1].cancelled

(***************************************************************************)
(* SpecClose: close() from every state.  Links are created, established,   *)
(* superseded and closed; the hub confirms a room and announces a          *)
(* resource; the transport moves one transfer.                             *)
(***************************************************************************)
NextClose ==
    \/ connect
    \/ \E l \in Links : _established(l)
    \/ \E l \in Links : _established_identify_fails(l)
    \/ \E l \in Links : _closed(l)
    \/ close
    \/ OnJoined(<<"g">>)
    \/ OnResourceEnvelope(1, "motd", 1, "", "")
    \/ ResourceCallbacks({1}, {1})

SpecClose == Init /\ [][NextClose]_vars

\* the engine holds nothing of a session
Closed ==
    /\ link = 0
    /\ rooms = {}
    /\ expectations = <<>>
    /\ active = {}
    /\ resToExp = <<>>

\* C14: when close() returns no link is attached, the joined-room set, the
\* expectation cache, the active-transfer set and the bindings are empty,
\* every transfer that was active is cancelled and the link that was attached
\* has been torn down; close() can be called in every state, and on the state
\* it leaves a second close() changes nothing and invokes no callback.
C14_CloseLeavesNothing ==
    [][close =>
          /\ Closed'
          /\ \A r \in active : res'[r].cancelled
          /\ link # 0 => linkStatus'[link] = "closed"
          /\ Closed => (/\ UNCHANGED <<sessionVars, linkVars, cacheVars, resVars>>
                        /\ callbacks' = <<>>)]_vars

\* close() has ended a session that had a room, an expectation and an active
\* transfer on an established link
C14_Witness ==
    /\ last.op = "close"
    /\ callbacks = <<"on_close">>
    /\ Closed
    /\ \E r \in Resources : res[r].cancelled /\ res[r].status = "transferring"
    /\ \E l \in Links : linkStatus[l] = "closed" /\ helloPc[l] = "loop"

(***************************************************************************)
(* The handshake: connect in both its forms and its failures, the link     *)
(* callbacks, close, the HELLO task of each link, and WELCOME envelopes    *)
(* whose limits sub-map holds any of two keys, one of which may carry a    *)
(* value int() rejects.                                                    *)
(***************************************************************************)
WelcomeLimitMaps == LimitMaps({"nick", "room"}, {"room"}, {1})

NextHandshake ==
    \/ connect
    \/ connect_and_wait
    \/ wait_for_welcome
    \/ connect_fails("TimeoutError: identity")
    \/ connect_fails("ValueError: hash")
    \/ \E l \in Links : _established(l)
    \/ \E l \in Links : _established_identify_fails(l)
    \/ \E l \in Links : _closed(l)
    \/ close
    \/ \E l \in Links : _hello_loop(l)
    \/ \E l \in Links : _hello_loop_send(l)
    \/ \E l \in Links : _hello_deadline(l)
    \/ \E lim \in WelcomeLimitMaps : OnWelcome(lim)

SpecHandshake == Init /\ [][NextHandshake]_vars

\* the handshake with WELCOME envelopes that carry no limits
NoLimitMaps == LimitMaps({}, {}, {1})

NextHello ==
    \/ connect
    \/ connect_and_wait
    \/ wait_for_welcome
    \/ connect_fails("TimeoutError: identity")
    \/ \E l \in Links : _established(l)
    \/ \E l \in Links : _established_identify_fails(l)
    \/ \E l \in Links : _closed(l)
    \/ close
    \/ \E l \in Links : _hello_loop(l)
    \/ \E l \in Links : _hello_loop_send(l)
    \/ \E l \in Links : _hello_deadline(l)
    \/ \E lim \in NoLimitMaps : OnWelcome(lim)

SpecHello == Init /\ [][NextHello]_vars

\* C15: the HELLO sends a link's handshake task has made or attempted never
\* number more than hello_max_attempts, whatever WELCOME, close and
\* reconnect do meanwhile
C15_HelloAttemptsCapped ==
    \A l \in Links : attempts[l] <= hello_max_attempts

\* the task of the second link has used up its attempts and would send again
C15_Witness ==
    \E l \in Links :
        /\ l > 1
        /\ link = l
        /\ ~welcomed
        /\ helloPc[l] = "loop"
        /\ attempts[l] = hello_max_attempts

\* C16: connect on a fresh engine whose hub identity never resolves raises
\* the timeout, creates no link, starts no handshake task and leaves no
\* link attached
C16_RecallTimeoutLeavesNoLink ==
    [][(/\ last'.op = "connect"
        /\ last'.outcome = "TimeoutError: identity")
          => /\ linksCreated' = linksCreated
             /\ linkStatus' = linkStatus
             /\ helloPc' = helloPc
             /\ attempts' = attempts
             /\ handed' = <<>>
             /\ linksCreated = 0 => link' = 0]_vars

C16_Witness ==
    /\ last.op = "connect"
    /\ last.outcome = "TimeoutError: identity"
    /\ linksCreated = 0
    /\ link = 0
    /\ \A l \in Links : helloPc[l] = "none"

\* C17: after connect(wait_for_welcome=True) has raised the timeout of its
\* wait for WELCOME, no link is attached
C17_WelcomeTimeoutDetaches ==
    (last.op = "connect" /\ last.outcome = "TimeoutError: WELCOME") => link = 0

\* C18: a WELCOME that arrives when the connection is already welcomed
\* invokes no welcome callback.  With one link ever created, the WELCOME
\* that set the flag and the one arriving came over the same link.
C18_WelcomeCallbackOnce ==
    [][(last'.op = "on_welcome" /\ linksCreated = 1 /\ welcomed)
          => callbacks' = <<>>]_vars

\* C19: a WELCOME applies every limit present in its sub-map and keeps the
\* others, or changes none of the five
C19_LimitsAllOrNothing ==
    [][\A lim \in WelcomeLimitMaps :
          OnWelcome(lim) =>
             \/ /\ max_nick_bytes' =
                      IF "nick" \in lim.present THEN lim.val["nick"]
                      ELSE max_nick_bytes
                /\ max_room_name_bytes' =
                      IF "room" \in lim.present THEN lim.val["room"]
                      ELSE max_room_name_bytes
                /\ UNCHANGED <<max_msg_body_bytes, max_rooms_per_session,
                               rate_limit_msgs_per_minute>>
             \/ UNCHANGED limitVars]_vars
(***************************************************************************)
(* Inbound dispatch: payloads that are one departure away from a valid     *)
(* envelope (undecodable, not a map, a bad key, or one field absent or of  *)
(* another type or value), and valid envelopes of every handled type.      *)
(***************************************************************************)
ValidEnvelope ==
    [decodes |-> TRUE, shape |-> "map", keys |-> "unsigned",
     v |-> IntVal(RRC_VERSION), t |-> IntVal(1), id |-> BytesVal,
     ts |-> IntVal(0), src |-> BytesVal, room |-> Absent]

FieldValues ==
    {Absent, BytesVal, StrVal, BoolVal(0), BoolVal(1)}
        \cup {IntVal(n) : n \in {-1, 0, RRC_VERSION, RRC_VERSION + 1}}

Payloads ==
    {[ValidEnvelope EXCEPT !.decodes = FALSE],
     [ValidEnvelope EXCEPT !.shape = "list"],
     [ValidEnvelope EXCEPT !.keys = "not int"],
     [ValidEnvelope EXCEPT !.keys = "negative"]}
        \cup {[ValidEnvelope EXCEPT ![f] = x] :
                 f \in {"v", "t", "id", "ts", "src", "room"}, x \in FieldValues}

NextInbound ==
    \/ OneConnection
    \/ \E env \in Payloads : _on_packet_rejected(env)
    \/ _on_packet_unhandled
    \/ \E body \in TextInputs \cup {None} : OnPing(body)
    \/ OnPong
    \/ \E room \in RoomInputs \cup {None} : OnJoined(room)
    \/ \E room \in RoomInputs \cup {None} : OnParted(room)
    \/ \E cb \in {"on_message", "on_notice", "on_error"} : OnForward(cb)
    \/ \E lim \in WelcomeLimitMaps : OnWelcome(lim)
    \/ \E size \in {0, 1} : OnResourceEnvelope(1, "motd", size, "", "")

SpecInbound == Init /\ [][NextInbound]_vars

\* the operations of the dispatch entry point
InboundOps ==
    {"_on_packet", "on_ping", "on_pong", "on_joined", "on_parted", "on_welcome",
     "on_resource_envelope", "on_message", "on_notice", "on_error"}

\* outcomes that are an exception leaving the operation
Raised(outcome) ==
    \/ IsValueError(outcome)
    \/ outcome \in {"RuntimeError: Not connected to hub.", "MessageTooLargeError",
                    "TimeoutError: identity", "TimeoutError: WELCOME",
                    "ValueError: hash", "ValueError: int()"}

\* a step of _on_packet that rejects a payload invokes no callback, sends
\* nothing, and leaves link, rooms, limits, welcomed flag, expectation cache
\* and active transfers as they were
MalformedDropped ==
    last'.op = "_on_packet" =>
        \A env \in Payloads :
            (Delivering /\ DecodeValidate(env) # "ok"
                /\ last'.outcome = DecodeValidate(env))
               => /\ callbacks' = <<>>
                  /\ handed' = <<>>
                  /\ UNCHANGED <<link, rooms, limitVars, welcomed, expectations,
                                 active, resToExp>>

\* the dropping of rejected payloads, which holds on its own
C20_MalformedDropped == [][MalformedDropped]_vars

C20_DroppedWitness ==
    /\ last.op = "_on_packet"
    /\ last.outcome = "ValueError: unsupported envelope version"
    /\ rooms # {}
    /\ expectations # <<>>
    /\ welcomed

\* C20: a payload that fails decoding or validation is dropped with no
\* callback, nothing sent and the engine's state unchanged, and no inbound
\* envelope of any content raises out of _on_packet
C20_MalformedDroppedNothingRaises ==
    [][/\ MalformedDropped
       /\ last'.op \in InboundOps => ~Raised(last'.outcome)]_vars
\* C25: the engine owns at most one active transport link, so that two
\* links never both deliver packets and resource callbacks into it
C25_OneActiveLink ==
    Cardinality({l \in Links : linkStatus[l] = "active"}) <= 1

\* C26: every execution of the concluded callback closes the transfer's
\* buffer when there is one, whichever way it ends: no expectation found,
\* status not COMPLETE, read failure, digest mismatch, unrecognized kind,
\* decode failure, notice delivered
C26_ConcludedReleasesBuffer ==
    [][\A r \in Resources :
          (/\ last'.op = "resource_callback"
           /\ now' = now
           /\ task[r].pc \in {"conc_scan", "conc_finish"}
           /\ task'[r].pc = "idle"
           /\ HasData(r))
             => /\ res'[r].closes >= 1
                /\ res[r].closes < 2 => res'[r].closes = res[r].closes + 1]_vars

\* a concluded callback has delivered its notice and closed the buffer
C26_Witness ==
    \E r \in Resources :
        /\ res[r].concluded
        /\ task[r].pc = "idle"
        /\ res[r].status = "complete"
        /\ res[r].closes = 1
        /\ last.op = "resource_callback"
        /\ callbacks = <<"on_notice">>

\* C27: the closed callback clears the expectation cache, the active set
\* and the transfer bindings in one step, and cancels every transfer that
\* was active, also while an advertise or conclude handler is under way
C27_ClosedClearsTogether ==
    [][last'.op = "_closed"
          => /\ expectations' = <<>>
             /\ active' = {}
             /\ resToExp' = <<>>
             /\ \A r \in active : res'[r].cancelled]_vars

\* the link closed while the started callback of an active transfer was
\* between its lock regions
C27_Witness ==
    /\ last.op = "_closed"
    /\ expectations = <<>> /\ active = {} /\ resToExp = <<>>
    /\ \E r \in Resources :
          /\ res[r].cancelled
          /\ task[r].pc \in {"adv_purge", "adv_scan", "adv_add"}
\* C29: once the welcomed flag has been set, or the current link is no
\* longer the task's own, an iteration the HELLO task of that link then
\* begins sends nothing: the task exits there, as it does at its deadline
C29_HelloStopsEarly ==
    [][\A l \in Links :
          (stopDue[l] /\ helloPc[l] = "loop") => helloPc'[l] # "send"]_vars
(***************************************************************************)
(* Callbacks that raise.  The UI installs callbacks of which any may raise *)
(* when invoked; the engine invokes them from packets, link events, sends  *)
(* and concluded transfers.                                                *)
(***************************************************************************)
UICallbacks ==
    {"on_message", "on_notice", "on_error", "on_welcome", "on_joined",
     "on_parted", "on_pong", "on_close", "on_resource_warning"}

\* the UI's callbacks are replaced by ones of which those in S raise
CallbacksRaise(S) ==
    /\ raising' = S
    /\ raising # S
    /\ last' = [op |-> "callbacks", room |-> None, text |-> None, outcome |-> "ok"]
    /\ handed' = <<>>
    /\ callbacks' = <<>>
    /\ UNCHANGED <<sessionVars, linkVars, helloVars, now, cacheVars, resVars,
                   trackerVars>>

NextCallbacks ==
    \/ OneConnection
    \/ \E S \in {{}, UICallbacks} : CallbacksRaise(S)
    \/ \E body \in TextInputs : OnPing(body)
    \/ OnPong
    \/ OnJoined(<<"g">>)
    \/ OnParted(<<"g">>)
    \/ \E cb \in {"on_message", "on_notice", "on_error"} : OnForward(cb)
    \/ \E lim \in WelcomeLimitMaps : OnWelcome(lim)
    \/ OnResourceEnvelope(1, "motd", 1, "", "")
    \/ ResourceCallbacks({1}, {1})

SpecCallbacks == Init /\ [][NextCallbacks]_vars

\* a callback that raises was invoked by the step
RaisedInStep == \E i \in 1..Len(callbacks') : callbacks'[i] \in raising

\* C21: when a UI callback raises, the exception does not leave the step
\* that invoked it, the engine's state is what the step makes it when the
\* callback returns (WELCOME: welcomed flag set and limits merged; JOINED
\* and PARTED: room set updated), and the links go on delivering
C21_CallbackExceptionsIsolated ==
    [][RaisedInStep =>
          /\ last'.outcome # "Exception: callback"
          /\ last'.op = "on_welcome" =>
                (welcomed' /\ \E lim \in WelcomeLimitMaps :
                    /\ FirstBad(lim) > Len(LimitKeys)
                    /\ max_nick_bytes' = Negotiated(lim, "nick", max_nick_bytes)
                    /\ max_room_name_bytes' =
                          Negotiated(lim, "room", max_room_name_bytes))
          /\ last'.op = "on_joined" => RoomKey(last'.room) \in rooms'
          /\ last'.op = "on_parted" => RoomKey(last'.room) \notin rooms'
          /\ last'.op \in InboundOps \cup {"resource_callback"}
                => linkStatus' = linkStatus]_vars

\* callbacks that raise have been invoked for WELCOME and the link's close
C21_Witness ==
    /\ raising = UICallbacks
    /\ last.op = "_closed"
    /\ callbacks = <<"on_close">>
    /\ welcomed
    /\ max_nick_bytes = 1

(***************************************************************************)
(* The tracker on its own: its methods called in any order, time passing,  *)
(* and the checker threads running.                                        *)
(***************************************************************************)
TrackerRooms == {<<"g">>}

TrackerTexts == {<<"a">>, <<"a", "b">>}

NextTracker ==
    \/ Tick
    \/ \E msg_id \in MsgIds, room \in TrackerRooms, text \in TrackerTexts :
          add(msg_id, room, text)
    \/ \E msg_id \in MsgIds : confirm(msg_id)
    \/ clear
    \/ start_checker
    \/ stop_checker
    \/ stop_checker_join
    \/ Sweepers

SpecTracker == Init /\ [][NextTracker]_vars

\* C22: confirm(id) of a pending id returns the stored record and removes
\* it; confirm(id) of an id that is not pending returns "not found" and
\* leaves the map as it is; no confirm changes the entry of another id;
\* and an id that is not pending becomes pending only through add, so that
\* every confirm(id) after the first, with no add between, finds nothing
C22_ConfirmIdempotent ==
    [][/\ \A msg_id \in MsgIds :
             confirm(msg_id) =>
                /\ IF msg_id \in ExpIds(_pending)
                   THEN /\ last'.outcome = "found"
                        /\ last'.room = Entry(_pending, msg_id).room
                        /\ last'.text = Entry(_pending, msg_id).text
                        /\ msg_id \notin ExpIds(_pending')
                   ELSE /\ last'.outcome = "not found"
                        /\ _pending' = _pending
                /\ \A other \in MsgIds \ {msg_id} :
                      Entry(_pending', other) = Entry(_pending, other)
       /\ \A msg_id \in MsgIds :
             (msg_id \notin ExpIds(_pending) /\ msg_id \in ExpIds(_pending'))
                => last'.op = "add"]_vars

\* a confirm has returned the record of one id while another id is pending
C22_Witness ==
    /\ last.op = "confirm"
    /\ last.outcome = "found"
    /\ last.text = <<"a", "b">>
    /\ _pending # <<>>

\* an entry is tracked while it is in the map or waits, taken from the map
\* by a sweep, for its turn in the sweep's for loop
Tracked(pending, sweepers, msg_id) ==
    \/ msg_id \in ExpIds(pending)
    \/ \E t \in Threads : msg_id \in ExpIds(sweepers[t].queue)

\* C23: no entry is reported through the timeout callback twice, and an
\* entry stops being tracked only when it is confirmed, cleared, or handed
\* to the timeout callback
C23_TimedOutReportedOnce ==
    [][\A msg_id \in MsgIds :
          /\ reported'[msg_id] <= 1
          /\ (Tracked(_pending, sweeper, msg_id)
                 /\ ~Tracked(_pending', sweeper', msg_id))
                => \/ last'.op \in {"confirm", "clear"}
                   \/ reported'[msg_id] = reported[msg_id] + 1]_vars

\* the checker threads that have been started and have not ended
Running == {t \in Threads : Alive(t)}

\* C30: at most one checker thread of the tracker is running
C30_OneSweeper == Cardinality(Running) <= 1

(***************************************************************************)
(* Messages sent from the UI, their echoes from the hub, and the checker.  *)
(***************************************************************************)
NextEcho ==
    \/ Tick
    \/ \E room \in TrackerRooms, text \in TrackerTexts : _send_message(room, text)
    \/ \E msg_id \in MsgIds, room \in TrackerRooms, body \in TrackerTexts :
          _handle_rrc_message(msg_id, room, body)
    \/ Sweepers

SpecEcho == Init /\ [][NextEcho]_vars

\* C24: the echo of an own message changes a message shown only when its
\* room and text equal those of the record popped for its id; on a
\* mismatch the messages shown stay as they are and the record remains
\* pending, so that the timeout sweep will report it
C24_EchoMismatchTimesOut ==
    [][(last'.op = "_handle_rrc_message" /\ now' = now) =>
          /\ messages' # messages =>
                \E i \in 1..Len(_pending) :
                    /\ _pending[i].room = last'.room
                    /\ _pending[i].text = last'.text
                    /\ _pending[i].id \notin ExpIds(_pending')
          /\ last'.outcome = "mismatch" =>
                /\ messages' = messages
                /\ ExpIds(_pending') = ExpIds(_pending)]_vars

(***************************************************************************)
(* A session of the UI from connect to disconnect: action_disconnect is    *)
(* close followed by _cleanup_after_disconnect.                            *)
(***************************************************************************)
NextDisconnect ==
    \/ linksCreated = 0 /\ connect
    \/ \E l \in Links : _established(l)
    \/ close
    \/ \E l \in Links : _hello_loop(l)
    \/ \E l \in Links : _hello_loop_send(l)
    \/ \E l \in Links : _hello_deadline(l)
    \/ Tick
    \/ \E room \in TrackerRooms, text \in TrackerTexts :
          /\ link # 0
          /\ linkStatus[link] = "active"
          /\ _send_message(room, text)
    \/ _cleanup_after_disconnect
    \/ stop_checker_join
    \/ Sweepers

SpecDisconnect == Init /\ [][NextDisconnect]_vars

\* the session is closed and the tracker's stop_checker has returned
Disconnected == link = 0 /\ ~_checker_running /\ joining = 0

\* C28: once the session is closed and the disconnect has returned, the
\* handshake task of a detached link does not go on to send another HELLO,
\* no checker thread sweeps the pending map, and no timeout callback is
\* invoked
C28_CloseStopsBackground ==
    [][Disconnected =>
          /\ \A l \in Links :
                (helloPc[l] = "loop" /\ linkStatus[l] = "closed")
                   => helloPc'[l] # "send"
          /\ \A t \in Threads :
                ~(sweeper[t].pc = "check" /\ sweeper'[t].pc = "report")
          /\ (last'.op = "timeout_checker" /\ now' = now)
                => callbacks' # <<"on_timeout">>]_vars

(***************************************************************************)
(* Several transfers against one announced expectation.                    *)
(***************************************************************************)
NextBindings ==
    \/ OneConnection
    \/ OnResourceEnvelope(1, "motd", 1, "", "")
    \/ ResourceCallbacks(Resources, {1})

SpecBindings == Init /\ [][NextBindings]_vars

\* C33: every transfer bound to an expectation is in the active set
C33_BoundTransfersActive == DOMAIN resToExp \subseteq active

\* one transfer is bound while another, accepted without a matching
\* expectation, is active beside it
C33_Witness ==
    /\ DOMAIN resToExp # {}
    /\ active \ DOMAIN resToExp # {}

(***************************************************************************)
(* One expectation, announced before any transfer is advertised, and the   *)
(* transfers that follow.                                                  *)
(***************************************************************************)
NextOneExpectation ==
    \/ OneConnection
    \/ /\ \A r \in Resources : res[r].status = "none"
       /\ OnResourceEnvelope(1, "motd", 1, "", "")
    \/ ResourceCallbacks(Resources, {1})

SpecOneExpectation == Init /\ [][NextOneExpectation]_vars

\* the transfers whose payload was delivered through on_notice
Noticed == {r \in Resources : res[r].noticed}

\* C34: the one expectation announced gives rise to at most one on_notice
\* callback, however many transfers of its size are advertised
C34_OneNoticePerExpectation == Cardinality(Noticed) <= 1

\* C35: the joined-room set never holds more rooms than the negotiated
\* max_rooms_per_session
C35_RoomsWithinLimit == Cardinality(rooms) <= max_rooms_per_session

\* C36: every envelope handed to the transport that carries a nickname
\* carries one no longer, in UTF-8 bytes, than max_nick_bytes at the time
C36_NickWithinLimitWhenSent ==
    \A i \in 1..Len(handed) :
        handed[i].nick # None => ByteLen(handed[i].nick) <= max_nick_bytes

\* C32: while no link is attached, the joined-room set, the expectation
\* cache, the active-transfer set and the transfer bindings are empty
C32_DetachedIsEmpty ==
    link = 0 =>
        /\ rooms = {}
        /\ expectations = <<>>
        /\ active = {}
        /\ resToExp = <<>>

\* C31: when the closed callback runs for a link other than the current
\* one, the current link stays attached and the joined rooms, the
\* expectation cache, the active transfers and their bindings stay as
\* they are
C31_StaleCloseHarmless ==
    [][\A l \in Links :
          (/\ last'.op = "_closed"
           /\ linkStatus[l] # "closed"
           /\ linkStatus'[l] = "closed"
           /\ link # 0
           /\ link # l)
          => /\ link' = link
             /\ rooms' = rooms
             /\ expectations' = expectations
             /\ active' = active
             /\ resToExp' = resToExp]_vars

\* C38: an entry that confirm can return has not been reported through the
\* timeout callback and is not held by a sweep for reporting: each entry
\* added ends in at most one of the two, returned by confirm or reported
C38_ConfirmOrTimeout ==
    \A msg_id \in ExpIds(_pending) :
        /\ reported[msg_id] = 0
        /\ \A t \in Threads : msg_id \notin ExpIds(sweeper[t].queue)

\* a confirm has returned the record of one entry after the timeout of
\* another was reported
C38_Witness ==
    /\ last.op = "confirm"
    /\ last.outcome = "found"
    /\ \E msg_id \in MsgIds : reported[msg_id] = 1

\* C40: an entry a sweep has taken from the pending map leaves the sweep's
\* list only by being handed to the timeout callback, also when the
\* callback raises for an entry before it
C40_SweepReportsAll ==
    [][\A t \in Threads :
          \A msg_id \in ExpIds(sweeper[t].queue) \ ExpIds(sweeper'[t].queue) :
              reported'[msg_id] = reported[msg_id] + 1]_vars

(***************************************************************************)
(* connect interleaved with the callbacks of its own and of older links.   *)
(* The handshake task's deadline, timeout_s after the link is established, *)
(* is left out: the task's first iteration sends at once.                  *)
(***************************************************************************)
NextConnect ==
    \/ \E wait \in BOOLEAN : connect_clear(wait)
    \/ connect_link
    \/ connect_assign
    \/ wait_for_welcome
    \/ \E l \in Links : _established(l)
    \/ \E l \in Links : _closed(l)
    \/ \E l \in Links : _hello_loop(l)
    \/ \E l \in Links : _hello_loop_send(l)
    \/ \E lim \in NoLimitMaps : OnWelcome(lim)

SpecConnect == Init /\ [][NextConnect]_vars

\* the link connect has made and not yet assigned to self.link
Unassigned(l) == connecting.pc = "created" /\ connecting.link = l

\* C37: the handshake task of a link ends without having sent a HELLO only
\* when the welcomed flag is set or its link is closed, superseded or
\* detached; it does not end while its link is the one connect has made
\* and is about to attach
C37_HelloSentOnCurrentLink ==
    [][\A l \in Links :
          (/\ hello_max_attempts >= 1
           /\ helloPc[l] = "loop"
           /\ helloPc'[l] = "done"
           /\ attempts[l] = 0
           /\ ~welcomed
           /\ linkStatus[l] = "active")
          => ~Unassigned(l)]_vars

\* C39: connect(wait_for_welcome=True) returns without error only for a
\* link that has been established, without which no WELCOME can have been
\* received on it
C39_WelcomeFromOwnLink ==
    [][(/\ waiting # 0
        /\ waiting' = 0
        /\ last'.op = "connect"
        /\ last'.outcome = "ok")
       => helloPc[waiting] # "none"]_vars
====
